---- MODULE Spec2Model ----
(***************************************************************************)
(* Query-resolution pipeline of the metadata agent.                        *)
(*                                                                         *)
(* The LangGraph workflow (intent classification, router, the three        *)
(* resolver nodes, the aggregator, run_agent) is modelled node by node.    *)
(* The legacy NaturalLanguageQueryAgent entry point is modelled beside it. *)
(*                                                                         *)
(* Similarity scores are kept in hundredths: 0.65 is 65, 0.05 is 5.        *)
(* Python dicts are records; an absent key is an absent record field.      *)
(* Messages and summary labels are rendered in English; the clock values   *)
(* run_agent stamps are the token "elapsed".                               *)
(***************************************************************************)
EXTENDS Integers, Sequences, FiniteSets, TLC

VARIABLES
    pc,        \* the node the workflow is about to run, "END", or "returned"
    state,     \* the AgentState mapping handed from node to node
    returned,  \* what run_agent / process_query handed to its caller
    trace,     \* the nodes run so far, in order
    calls,     \* the collaborator calls made so far, in order
    produced,  \* per resolver stage: what the stage computed before returning
    pending,   \* inside profiles_and_events_wrapper: the profile update held
    legacy     \* outcome of the legacy agent's entry points

vars == <<pc, state, returned, trace, calls, produced, pending, legacy>>

----------------------------------------------------------------------------
(* Python values *)

NoneValue == [py_none |-> TRUE]

Dict(items) == [kind |-> "dict", items |-> items]

List(items) == [kind |-> "list", items |-> items]

Other == [kind |-> "other"]

\* a value met where a dict is expected that is no dict
NotADict == [py_not_dict |-> TRUE]

\* isinstance(value, dict)
IsDict(value) == "py_not_dict" \notin DOMAIN value

\* the integer 5 met where a string is expected, written as a token of its
\* own so that isinstance(value, str) is a test against the token
Five == "<5>"

\* isinstance(value, str)
IsStr(value) == value # Five

\* str(value)
Str(value) == IF value = Five THEN "5" ELSE value

\* the text of an exception, as stored under the state's error key
Err(message) == [message |-> message]

Get(d, key, default) == IF key \in DOMAIN d THEN d[key] ELSE default

\* truthiness of an Optional[dict]: None and the empty dict are falsy
DictTruthy(d) == d # NoneValue /\ DOMAIN d # {}

RECURSIVE SeqSum(_)
SeqSum(s) == IF s = <<>> THEN 0 ELSE Head(s) + SeqSum(Tail(s))

RECURSIVE Flatten(_)
Flatten(ss) == IF ss = <<>> THEN <<>> ELSE Head(ss) \o Flatten(Tail(ss))

SeqMap(Op(_), s) == [i \in 1..Len(s) |-> Op(s[i])]

RECURSIVE SeqFilter(_, _)
SeqFilter(Keep(_), s) ==
    IF s = <<>> THEN <<>>
    ELSE IF Keep(Head(s)) THEN <<Head(s)>> \o SeqFilter(Keep, Tail(s))
         ELSE SeqFilter(Keep, Tail(s))

Range(s) == {s[i] : i \in 1..Len(s)}

----------------------------------------------------------------------------
(* Policy numbers *)

similarity_threshold == 50

resolver_ambiguity_margin == 5

ambiguity_threshold == 75

HighConfidence == 85

MediumConfidence == 70

search_limit == 5

----------------------------------------------------------------------------
(* Bounds of the model *)

MaxHits == 2

\* the matches one stage hands to the Aggregator
MaxMatches == 2

\* the embedding cache scaled down: entries live ttl ticks of the clock and
\* the cache holds max_size entries; the model encodes batch_size texts at
\* a time
ttl == 2

max_size == 2

batch_size == 2

\* the clock stops at MaxTime
MaxTime == 3

\* the query texts one stage embeds in one call
MaxBatch == 3

----------------------------------------------------------------------------
(* The catalog: immutable during query resolution.  Two events carry an    *)
(* attribute with the same field name.                                     *)

ProfileCatalog ==
    { [id |-> "P1", idname |-> "age_group", source_name |-> "customer"],
      [id |-> "P2", idname |-> "gender", source_name |-> "customer"] }

EventCatalog ==
    { [id |-> "E1", idname |-> "purchase", source_name |-> "Purchase"],
      [id |-> "E2", idname |-> "login", source_name |-> "Login"] }

EventAttrCatalog ==
    { [id |-> "A1", idname |-> "amount", source_name |-> "Amount", source |-> "purchase"],
      [id |-> "A2", idname |-> "amount", source_name |-> "Amount", source |-> "login"] }

Scores == {40, 80, 90}

----------------------------------------------------------------------------
(* Inputs: the user's query and what the extraction service answers.       *)

EventKeywords == {"purchase events"}

Queries == {"user age"} \cup EventKeywords

EvPurchase == [event_type |-> "purchase", attributes |-> List(<<"amount", "time">>)]

EvLogin == [event_description |-> "login", attributes |-> Dict(<< <<"amount", "high">> >>)]

EvBrowse == [event_type |-> "", event_description |-> "browse"]

PersonAttributePayloads ==
    { Dict(<< <<"age", "25-35">> >>),
      List(<<"age", "gender">>),
      Other }

EventListPayloads ==
    { List(<<>>),
      List(<<EvPurchase>>),
      List(<<EvPurchase, EvLogin>>),
      List(<<EvBrowse, EvPurchase>>),
      Other }

\* structured_query dicts: every combination of the optional keys
StructuredQueries ==
    { [person_attributes |-> pa] : pa \in PersonAttributePayloads }
    \cup { [behavioral_events |-> ev] : ev \in EventListPayloads }
    \cup { [events |-> ev] : ev \in EventListPayloads \ {List(<<>>), Other} }
    \cup { [person_attributes |-> pa, behavioral_events |-> ev] :
             pa \in { Dict(<< <<"age", "25-35">> >>), Other },
             ev \in EventListPayloads \ { List(<<EvPurchase, EvLogin>>) } }

\* what llm_extractor.extract does: raises, or returns an ExtractedInfo
ExtractOutcomes ==
    { [raises |-> TRUE] }
    \cup { [raises |-> FALSE, structured_query |-> sq] :
             sq \in StructuredQueries \cup {NoneValue} }

----------------------------------------------------------------------------
(* intent_classification_node *)

FormatKV(name, value) == Str(name) \o ": " \o Str(value)

\* the mapping shape left unread
ParsePersonAttributes_ListOnly(sq) ==
    IF "person_attributes" \notin DOMAIN sq THEN <<>>
    ELSE LET person_attrs == sq["person_attributes"] IN
         IF person_attrs.kind = "list"
         THEN [i \in 1..Len(person_attrs.items) |->
                 [attribute_name |-> person_attrs.items[i],
                  query_text |-> person_attrs.items[i]]]
         ELSE <<>>

ParsePersonAttributes(sq) ==
    IF "person_attributes" \notin DOMAIN sq THEN <<>>
    ELSE LET person_attrs == sq["person_attributes"] IN
         IF person_attrs.kind = "dict"
         THEN [i \in 1..Len(person_attrs.items) |->
                 [attribute_name |-> person_attrs.items[i][1],
                  query_text |-> FormatKV(person_attrs.items[i][1], person_attrs.items[i][2])]]
         ELSE IF person_attrs.kind = "list"
         THEN [i \in 1..Len(person_attrs.items) |->
                 [attribute_name |-> person_attrs.items[i],
                  query_text |-> person_attrs.items[i]]]
         ELSE <<>>

BehavioralEventsOf(sq) ==
    Get(sq, "behavioral_events", Get(sq, "events", List(<<>>)))

ParseEventAttributes(event) ==
    LET attrs == Get(event, "attributes", Dict(<<>>)) IN
    IF attrs.kind = "dict"
    THEN [i \in 1..Len(attrs.items) |-> FormatKV(attrs.items[i][1], attrs.items[i][2])]
    ELSE IF attrs.kind = "list" THEN attrs.items
    ELSE <<>>

EventDescriptionOf(event) ==
    IF "event_type" \in DOMAIN event /\ event["event_type"] # ""
    THEN event["event_type"]
    ELSE Get(event, "event_description", "")

\* the events appended at the front of the list
ParseEvents_NewestFirst(sq) ==
    LET behavioral_events == BehavioralEventsOf(sq) IN
    IF behavioral_events.kind = "list"
    THEN LET kept == SeqFilter(IsDict, behavioral_events.items) IN
         [i \in 1..Len(kept) |->
            [event_description |-> EventDescriptionOf(kept[Len(kept) + 1 - i]),
             event_attributes |-> ParseEventAttributes(kept[Len(kept) + 1 - i])]]
    ELSE <<>>

ParseEvents(sq) ==
    LET behavioral_events == BehavioralEventsOf(sq) IN
    IF behavioral_events.kind = "list"
    THEN SeqMap(LAMBDA event :
                   [event_description |-> EventDescriptionOf(event),
                    event_attributes |-> ParseEventAttributes(event)],
                SeqFilter(IsDict, behavioral_events.items))
    ELSE <<>>

IntentTypeOf(profile_attributes, events, query) ==
    IF Len(profile_attributes) > 0 /\ Len(events) > 0 THEN "mixed"
    ELSE IF Len(events) > 0 THEN "event"
    ELSE IF Len(profile_attributes) > 0 THEN "profile"
    ELSE IF query \in EventKeywords THEN "event"
    ELSE "profile"

\* sq.get of a truthy value that is no dict raises, and so does
\* len(behavioral_events) of a truthy value that has no length
IntentParseRaises(sq) ==
    DictTruthy(sq) /\ (~IsDict(sq) \/ BehavioralEventsOf(sq).kind = "other")

\* the except clause handing back what was parsed before the exception
intent_classification_node_KeepsParsed(st, outcome) ==
    IF outcome.raises
    THEN [intent_type |-> "profile",
          profile_attributes |-> <<>>,
          events |-> <<>>,
          error |-> Err("Intent classification failed")]
    ELSE IF IntentParseRaises(outcome.structured_query)
    THEN [intent_type |-> "profile",
          profile_attributes |-> ParsePersonAttributes(outcome.structured_query),
          events |-> <<>>,
          error |-> Err("Intent classification failed")]
    ELSE LET sq == outcome.structured_query
             profile_attributes == IF DictTruthy(sq) THEN ParsePersonAttributes(sq) ELSE <<>>
             events == IF DictTruthy(sq) THEN ParseEvents(sq) ELSE <<>>
         IN [intent_type |-> IntentTypeOf(profile_attributes, events, st.query),
             profile_attributes |-> profile_attributes,
             events |-> events]

intent_classification_node(st, outcome) ==
    IF outcome.raises \/ IntentParseRaises(outcome.structured_query)
    THEN [intent_type |-> "profile",
          profile_attributes |-> <<>>,
          events |-> <<>>,
          error |-> Err("Intent classification failed")]
    ELSE LET sq == outcome.structured_query
             profile_attributes == IF DictTruthy(sq) THEN ParsePersonAttributes(sq) ELSE <<>>
             events == IF DictTruthy(sq) THEN ParseEvents(sq) ELSE <<>>
         IN [intent_type |-> IntentTypeOf(profile_attributes, events, st.query),
             profile_attributes |-> profile_attributes,
             events |-> events]

----------------------------------------------------------------------------
(* router *)

\* the profile test placed first, so a mixed query takes the profile route
route_query_ProfilesFirst(st) ==
    LET has_profiles == Len(st.profile_attributes) > 0
        has_events == Len(st.events) > 0
    IN IF has_profiles THEN "search_profiles"
       ELSE IF has_events THEN "search_events"
       ELSE "search_profiles"

route_query(st) ==
    LET has_profiles == Len(st.profile_attributes) > 0
        has_events == Len(st.events) > 0
    IN IF has_profiles /\ has_events THEN "search_mixed"
       ELSE IF has_events THEN "search_events"
       ELSE "search_profiles"

\* the event route wired past the Event Resolver
RouteTarget_SkipsEvents(route) ==
    CASE route = "search_profiles" -> "search_profiles"
      [] route = "search_events" -> "search_event_attributes"
      [] route = "search_mixed" -> "search_profiles_and_events"

\* the profile route wired straight to END
RouteTarget_ProfilesToEnd(route) ==
    CASE route = "search_profiles" -> "END"
      [] route = "search_events" -> "search_events"
      [] route = "search_mixed" -> "search_profiles_and_events"

\* the conditional edges of create_agent_graph
RouteTarget(route) ==
    CASE route = "search_profiles" -> "search_profiles"
      [] route = "search_events" -> "search_events"
      [] route = "search_mixed" -> "search_profiles_and_events"


----------------------------------------------------------------------------
(* The vector store.  search_profile_attributes is in the client; the      *)
(* event searches are called by the nodes but are not in the client file,  *)
(* so they follow the collaborator contract: the nearest entries of the    *)
(* partition, at most limit of them, in any order, and for event           *)
(* attributes only entries of the event named by the filter.  A search     *)
(* may also raise.                                                         *)

Hit(entry, score) == [entry |-> entry, score |-> score]

DistinctIds(hits) ==
    \A i, j \in 1..Len(hits) : i # j => hits[i].entry.id # hits[j].entry.id

SearchAnswersUpTo(entries, limit) ==
    LET HitSet == { Hit(e, sc) : e \in entries, sc \in Scores }
        n == IF MaxHits < limit THEN MaxHits ELSE limit
    IN { [raises |-> FALSE, hits |-> h] :
           h \in { x \in UNION { [1..k -> HitSet] : k \in 0..n } : DistinctIds(x) } }
       \cup { [raises |-> TRUE] }

SearchAnswers(entries) == SearchAnswersUpTo(entries, search_limit)

search_profile_attributes == SearchAnswers(ProfileCatalog)

search_events == SearchAnswers(EventCatalog)

search_event_attributes(source) ==
    SearchAnswers({ e \in EventAttrCatalog : e.source = source })

----------------------------------------------------------------------------
(* Candidate selection shared by the resolver nodes *)

ValidResults(search_results, threshold) ==
    SeqFilter(LAMBDA r : r.score >= threshold, search_results)

\* the candidates left in the order the search returned them
SortedByScoreDesc_Unsorted(results) == results

\* sorted(valid_results, key=score, reverse=True): stable, so candidates with
\* equal scores keep the order the search returned them in
RECURSIVE InsertByScoreDesc(_, _)
InsertByScoreDesc(r, sorted) ==
    IF sorted = <<>> THEN <<r>>
    ELSE IF Head(sorted).score >= r.score
         THEN <<Head(sorted)>> \o InsertByScoreDesc(r, Tail(sorted))
         ELSE <<r>> \o sorted

RECURSIVE SortedByScoreDesc(_)
SortedByScoreDesc(results) ==
    IF results = <<>> THEN <<>>
    ELSE InsertByScoreDesc(results[Len(results)],
                           SortedByScoreDesc(SubSeq(results, 1, Len(results) - 1)))

\* max(valid_results, key=score): the first candidate with the largest score
MaxByScore(results) ==
    LET best == CHOOSE i \in 1..Len(results) :
                  /\ \A j \in 1..Len(results) : results[j].score <= results[i].score
                  /\ \A j \in 1..(i - 1) : results[j].score < results[i].score
    IN results[best]

\* a gap equal to the margin counted as ambiguous
HasAmbiguity_Inclusive(sorted_results, margin) ==
    /\ Len(sorted_results) >= 2
    /\ sorted_results[1].score - sorted_results[2].score <= margin

HasAmbiguity(sorted_results, margin) ==
    /\ Len(sorted_results) >= 2
    /\ sorted_results[1].score - sorted_results[2].score < margin


\* all sequences whose i-th element is drawn from the i-th set
RECURSIVE SeqProduct(_)
SeqProduct(sets) ==
    IF sets = <<>> THEN { <<>> }
    ELSE { <<x>> \o rest : x \in Head(sets), rest \in SeqProduct(Tail(sets)) }

\* index of the first answer that raises, or 0
FirstRaise(answers) ==
    IF \E i \in 1..Len(answers) : answers[i].raises
    THEN CHOOSE i \in 1..Len(answers) :
           answers[i].raises /\ \A j \in 1..(i - 1) : ~answers[j].raises
    ELSE 0

EmbedCall(stage, texts) == [stage |-> stage, op |-> "encode", texts |-> texts]

SearchCall(stage, text, source) ==
    [stage |-> stage, op |-> "search", text |-> text, source |-> source]

\* the calls a loop over texts makes: one batched encode, then one search per
\* text up to and including the first one that raises
LoopCalls(stage, texts, source, embed_raises, answers) ==
    LET last == IF FirstRaise(answers) = 0 THEN Len(texts) ELSE FirstRaise(answers)
    IN <<EmbedCall(stage, texts)>>
       \o (IF embed_raises THEN <<>>
           ELSE [i \in 1..last |-> SearchCall(stage, texts[i], source)])

----------------------------------------------------------------------------
(* search_profiles_node *)

ProfileMatch(attr, search_results, threshold, margin) ==
    LET valid_results == ValidResults(search_results, threshold)
        sorted_results == SortedByScoreDesc(valid_results)
        best_result == sorted_results[1]
    IN IF valid_results = <<>> THEN <<>>
       ELSE << [matched_field |->
                  [id |-> best_result.entry.id,
                   score |-> best_result.score,
                   source |-> best_result.entry.source_name,
                   source_name |-> best_result.entry.source_name,
                   idname |-> best_result.entry.idname,
                   has_ambiguity |-> HasAmbiguity(sorted_results, margin)],
                original_query |-> attr.query_text,
                original_attribute |-> attr.attribute_name] >>

\* all_results after the first n attributes of the loop
ProfileLoop(profile_attributes, answers, n, threshold) ==
    Flatten([i \in 1..n |->
               ProfileMatch(profile_attributes[i], answers[i].hits, threshold,
                            resolver_ambiguity_margin)])

\* inputs: whether the batched encode raises, and the store's answer to the
\* search of each attribute
ProfileInputs(st) ==
    IF st.profile_attributes = <<>>
    THEN { [embed_raises |-> FALSE, answers |-> <<>>] }
    ELSE { [embed_raises |-> TRUE, answers |-> <<>>] }
         \cup { [embed_raises |-> FALSE, answers |-> a] :
                  a \in SeqProduct([i \in 1..Len(st.profile_attributes) |->
                                      search_profile_attributes]) }

ProfileRaises(in) == in.embed_raises \/ FirstRaise(in.answers) # 0

search_profiles_node(st, in, threshold) ==
    IF st.profile_attributes = <<>> THEN [profile_results |-> <<>>]
    ELSE IF ProfileRaises(in)
    THEN [profile_results |-> <<>>, error |-> Err("Profile search failed")]
    ELSE [profile_results |->
            ProfileLoop(st.profile_attributes, in.answers,
                        Len(st.profile_attributes), threshold)]

ProfileCalls(st, in) ==
    IF st.profile_attributes = <<>> THEN <<>>
    ELSE LoopCalls("profiles", SeqMap(LAMBDA a : a.query_text, st.profile_attributes),
                   "", in.embed_raises, in.answers)

\* all_results when the node returned or raised
ProfileObtained(st, in, threshold) ==
    IF st.profile_attributes = <<>> \/ in.embed_raises THEN <<>>
    ELSE ProfileLoop(st.profile_attributes, in.answers,
                     IF FirstRaise(in.answers) = 0 THEN Len(st.profile_attributes)
                     ELSE FirstRaise(in.answers) - 1,
                     threshold)

----------------------------------------------------------------------------
(* search_events_node *)

\* only the first declared attribute carried forward
EventMatch_FirstAttributeOnly(event, search_results, threshold) ==
    LET valid_results == ValidResults(search_results, threshold)
        best_result == MaxByScore(valid_results)
        declared == Get(event, "event_attributes", <<>>)
    IN IF valid_results = <<>> THEN <<>>
       ELSE << [matched_field |->
                  [id |-> best_result.entry.id,
                   score |-> best_result.score,
                   source |-> "",
                   source_name |-> best_result.entry.source_name,
                   idname |-> best_result.entry.idname],
                original_query |-> event.event_description,
                event_attributes |-> IF declared = <<>> THEN <<>> ELSE <<declared[1]>>] >>

EventMatch(event, search_results, threshold) ==
    LET valid_results == ValidResults(search_results, threshold)
        best_result == MaxByScore(valid_results)
    IN IF valid_results = <<>> THEN <<>>
       ELSE << [matched_field |->
                  [id |-> best_result.entry.id,
                   score |-> best_result.score,
                   source |-> "",
                   source_name |-> best_result.entry.source_name,
                   idname |-> best_result.entry.idname],
                original_query |-> event.event_description,
                event_attributes |-> Get(event, "event_attributes", <<>>)] >>

EventLoop(events, answers, n, threshold) ==
    Flatten([i \in 1..n |-> EventMatch(events[i], answers[i].hits, threshold)])

EventInputs(st) ==
    IF st.events = <<>>
    THEN { [embed_raises |-> FALSE, answers |-> <<>>] }
    ELSE { [embed_raises |-> TRUE, answers |-> <<>>] }
         \cup { [embed_raises |-> FALSE, answers |-> a] :
                  a \in SeqProduct([i \in 1..Len(st.events) |-> search_events]) }

EventRaises(in) == in.embed_raises \/ FirstRaise(in.answers) # 0

search_events_node(st, in, threshold) ==
    IF st.events = <<>> THEN [event_results |-> <<>>]
    ELSE IF EventRaises(in)
    THEN [event_results |-> <<>>, error |-> Err("Event search failed")]
    ELSE [event_results |-> EventLoop(st.events, in.answers, Len(st.events), threshold)]

EventCalls(st, in) ==
    IF st.events = <<>> THEN <<>>
    ELSE LoopCalls("events", SeqMap(LAMBDA e : e.event_description, st.events),
                   "", in.embed_raises, in.answers)

EventObtained(st, in, threshold) ==
    IF st.events = <<>> \/ in.embed_raises THEN <<>>
    ELSE EventLoop(st.events, in.answers,
                   IF FirstRaise(in.answers) = 0 THEN Len(st.events)
                   ELSE FirstRaise(in.answers) - 1,
                   threshold)


----------------------------------------------------------------------------
(* search_event_attributes_node *)

EventSource(event_result) == event_result.matched_field.idname

\* the events of event_results whose attributes are searched
SearchesAttributes(event_result) ==
    EventSource(event_result) # "" /\ event_result.event_attributes # <<>>

EventAttrMatch(event_result, attr_query, search_results, threshold, margin) ==
    LET event_source == EventSource(event_result)
        valid_results == ValidResults(search_results, threshold)
        sorted_results == SortedByScoreDesc(valid_results)
        best_result == sorted_results[1]
    IN IF valid_results = <<>> THEN <<>>
       ELSE << [matched_field |->
                  [id |-> best_result.entry.id,
                   score |-> best_result.score,
                   source_name |-> best_result.entry.source_name,
                   idname |-> best_result.entry.idname,
                   source |-> Get(best_result.entry, "source", event_source),
                   has_ambiguity |-> HasAmbiguity(sorted_results, margin)],
                original_query |-> attr_query,
                source |-> event_source,
                event_name |-> event_result.matched_field.source_name] >>

\* the matches of one event's inner loop over its first n attribute queries
EventAttrInner(event_result, answers, n, threshold) ==
    Flatten([j \in 1..n |->
               EventAttrMatch(event_result, event_result.event_attributes[j],
                              answers[j].hits, threshold, resolver_ambiguity_margin)])

\* per event: whether its encode raises and the store's answers to the
\* searches filtered to that event
EventAttrInputsOf(event_result) ==
    IF ~SearchesAttributes(event_result)
    THEN { [embed_raises |-> FALSE, answers |-> <<>>] }
    ELSE { [embed_raises |-> TRUE, answers |-> <<>>] }
         \cup { [embed_raises |-> FALSE, answers |-> a] :
                  a \in SeqProduct([j \in 1..Len(event_result.event_attributes) |->
                                      search_event_attributes(EventSource(event_result))]) }

EventAttrInputs(st) ==
    SeqProduct([i \in 1..Len(st.event_results) |-> EventAttrInputsOf(st.event_results[i])])

\* the outer loop from event i on: all_results and the calls made, until the
\* end of the list or the first call that raises
RECURSIVE EventAttrLoop(_, _, _, _, _, _)
EventAttrLoop(event_results, ins, i, all_results, made, threshold) ==
    IF i > Len(event_results)
    THEN [raised |-> FALSE, all_results |-> all_results, calls |-> made]
    ELSE LET event_result == event_results[i]
             in == ins[i]
             n == Len(event_result.event_attributes)
             stop == FirstRaise(in.answers)
             now == made \o LoopCalls("event_attributes", event_result.event_attributes,
                                      EventSource(event_result), in.embed_raises, in.answers)
         IN IF ~SearchesAttributes(event_result)
            THEN EventAttrLoop(event_results, ins, i + 1, all_results, made, threshold)
            ELSE IF in.embed_raises
            THEN [raised |-> TRUE, all_results |-> all_results, calls |-> now]
            ELSE IF stop # 0
            THEN [raised |-> TRUE,
                  all_results |-> all_results
                       \o EventAttrInner(event_result, in.answers, stop - 1, threshold),
                  calls |-> now]
            ELSE EventAttrLoop(event_results, ins, i + 1,
                               all_results
                                 \o EventAttrInner(event_result, in.answers, n, threshold),
                               now, threshold)

\* an empty event list reported as a failure of the stage
search_event_attributes_node_ErrorOnEmpty(st, ins, threshold) ==
    IF st.event_results = <<>>
    THEN [event_attr_results |-> <<>>, error |-> Err("Event attribute search failed")]
    ELSE LET run == EventAttrLoop(st.event_results, ins, 1, <<>>, <<>>, threshold)
         IN IF run.raised
            THEN [event_attr_results |-> <<>>, error |-> Err("Event attribute search failed")]
            ELSE [event_attr_results |-> run.all_results]

search_event_attributes_node(st, ins, threshold) ==
    IF st.event_results = <<>> THEN [event_attr_results |-> <<>>]
    ELSE LET run == EventAttrLoop(st.event_results, ins, 1, <<>>, <<>>, threshold)
         IN IF run.raised
            THEN [event_attr_results |-> <<>>, error |-> Err("Event attribute search failed")]
            ELSE [event_attr_results |-> run.all_results]

EventAttrCalls(st, ins) ==
    IF st.event_results = <<>> THEN <<>>
    ELSE EventAttrLoop(st.event_results, ins, 1, <<>>, <<>>, similarity_threshold).calls

EventAttrObtained(st, ins, threshold) ==
    IF st.event_results = <<>> THEN <<>>
    ELSE EventAttrLoop(st.event_results, ins, 1, <<>>, <<>>, threshold).all_results

EventAttrRaises(st, ins) ==
    /\ st.event_results # <<>>
    /\ EventAttrLoop(st.event_results, ins, 1, <<>>, <<>>, similarity_threshold).raised


----------------------------------------------------------------------------
(* aggregate_results_node *)

\* an entry of a result list that is not a mapping (a caller-supplied
\* initial_state may hold one): reading it raises inside the aggregator
Malformed == [malformed |-> TRUE]

IsMalformed(result) == "malformed" \in DOMAIN result

_get_confidence_level(score) ==
    IF score >= HighConfidence THEN "high"
    ELSE IF score >= MediumConfidence THEN "medium"
    ELSE "low"

RECURSIVE InsertMatchDesc(_, _)
InsertMatchDesc(r, sorted) ==
    IF sorted = <<>> THEN <<r>>
    ELSE IF Head(sorted).matched_field.score >= r.matched_field.score
         THEN <<Head(sorted)>> \o InsertMatchDesc(r, Tail(sorted))
         ELSE <<r>> \o sorted

\* sorted(results, key=matched_field.score, reverse=True), stable
RECURSIVE SortMatchesDesc(_)
SortMatchesDesc(results) ==
    IF results = <<>> THEN <<>>
    ELSE InsertMatchDesc(results[Len(results)],
                         SortMatchesDesc(SubSeq(results, 1, Len(results) - 1)))

\* the loop without the check of seen_ids
KeepFirstAboveThreshold_NoDedup(sorted_results, seen_ids, threshold) ==
    SeqFilter(LAMBDA r : r.matched_field.score >= threshold, sorted_results)

\* the loop over sorted_results: skip below threshold or an id already seen
RECURSIVE KeepFirstAboveThreshold(_, _, _)
KeepFirstAboveThreshold(sorted_results, seen_ids, threshold) ==
    IF sorted_results = <<>> THEN <<>>
    ELSE LET result == Head(sorted_results)
             skip == result.matched_field.score < threshold
                     \/ result.matched_field.id \in seen_ids
         IN IF skip
            THEN KeepFirstAboveThreshold(Tail(sorted_results), seen_ids, threshold)
            ELSE <<result>>
                 \o KeepFirstAboveThreshold(Tail(sorted_results),
                                            seen_ids \cup {result.matched_field.id},
                                            threshold)

ProfileEntry(result) ==
    [idname |-> result.matched_field.idname,
     source_name |-> result.matched_field.source_name,
     source |-> result.matched_field.source,
     original_query |-> result.original_query,
     original_attribute |-> result.original_attribute,
     score |-> result.matched_field.score,
     confidence_level |-> _get_confidence_level(result.matched_field.score)]

EventEntry(result) ==
    [idname |-> result.matched_field.idname,
     source_name |-> result.matched_field.source_name,
     source |-> result.matched_field.source,
     original_query |-> result.original_query,
     score |-> result.matched_field.score,
     confidence_level |-> _get_confidence_level(result.matched_field.score)]

EventAttrEntry(result) ==
    LET event_idname == Get(result, "event_idname", "")
    IN [idname |-> result.matched_field.idname,
        source_name |-> result.matched_field.source_name,
        event_idname |-> event_idname,
        event_name |-> Get(result, "event_name", event_idname),
        original_query |-> result.original_query,
        score |-> result.matched_field.score,
        confidence_level |-> _get_confidence_level(result.matched_field.score)]

_process_profile_results(profile_results, threshold) ==
    SeqMap(ProfileEntry,
           KeepFirstAboveThreshold(SortMatchesDesc(profile_results), {}, threshold))

_process_event_results(event_results, threshold) ==
    SeqMap(EventEntry,
           KeepFirstAboveThreshold(SortMatchesDesc(event_results), {}, threshold))

_process_event_attr_results(event_attr_results, threshold) ==
    SeqMap(EventAttrEntry,
           KeepFirstAboveThreshold(SortMatchesDesc(event_attr_results), {}, threshold))

\* the keys of a defaultdict(list) filled in list order
RECURSIVE KeysInOrder(_, _)
KeysInOrder(results, seen) ==
    IF results = <<>> THEN <<>>
    ELSE IF Head(results).original_query \in seen
         THEN KeysInOrder(Tail(results), seen)
         ELSE <<Head(results).original_query>>
              \o KeysInOrder(Tail(results), seen \cup {Head(results).original_query})

ProfileCandidate(result) ==
    [idname |-> result.matched_field.idname,
     source_name |-> result.matched_field.source_name,
     score |-> result.matched_field.score]

EventAttrCandidate(result) ==
    [idname |-> result.matched_field.idname,
     source_name |-> result.matched_field.source_name,
     event_idname |-> Get(result, "event_idname", ""),
     score |-> result.matched_field.score]

\* one category of _detect_ambiguities
AmbiguousGroups(category, results, threshold) ==
    LET Candidate(r) == IF category = "event_attribute"
                        THEN EventAttrCandidate(r)
                        ELSE ProfileCandidate(r)
        high == SeqFilter(LAMBDA r : r.matched_field.score >= threshold, results)
        queries == KeysInOrder(high, {})
        GroupOf(q) == SeqMap(Candidate, SeqFilter(LAMBDA r : r.original_query = q, high))
        groups == [i \in 1..Len(queries) |->
                     [category |-> category,
                      original_query |-> queries[i],
                      candidates |-> GroupOf(queries[i])]]
    IN SeqFilter(LAMBDA g : Len(g.candidates) > 1, groups)

_detect_ambiguities(profile_results, event_results, event_attr_results, threshold) ==
    AmbiguousGroups("profile", profile_results, threshold)
    \o AmbiguousGroups("event", event_results, threshold)
    \o AmbiguousGroups("event_attribute", event_attr_results, threshold)

RECURSIVE Join(_, _)
Join(sep, parts) ==
    IF parts = <<>> THEN ""
    ELSE IF Len(parts) = 1 THEN parts[1]
    ELSE parts[1] \o sep \o Join(sep, Tail(parts))

\* every surviving match mentioned
TopThree_All(entries) == entries

TopThree(entries) == SubSeq(entries, 1, IF Len(entries) < 3 THEN Len(entries) ELSE 3)

NothingFound == "no matching field found"

_generate_summary(profile_attributes, events, event_attributes) ==
    LET parts ==
          (IF profile_attributes # <<>>
           THEN << "profile attributes: "
                   \o Join(", ", SeqMap(LAMBDA a : a.source_name \o "(query:"
                                                   \o a.original_query \o ")",
                                        TopThree(profile_attributes))) >>
           ELSE <<>>)
          \o (IF events # <<>>
              THEN << "events: "
                      \o Join(", ", SeqMap(LAMBDA e : e.source_name, TopThree(events))) >>
              ELSE <<>>)
          \o (IF event_attributes # <<>>
              THEN << "event attributes: "
                      \o Join(", ", SeqMap(LAMBDA a : a.source_name \o "(event:"
                                                      \o a.event_name \o ")",
                                           TopThree(event_attributes))) >>
              ELSE <<>>)
    IN IF parts = <<>> THEN NothingFound ELSE Join("; ", parts)

\* round(sum(all_scores) / len(all_scores), 2) in hundredths, 0.0 when empty.
\* A mean halfway between two hundredths is rounded by the binary value of
\* the float; it is taken upwards here, and no property relies on the side.
ConfidenceScore(all_scores) ==
    IF all_scores = <<>> THEN 0
    ELSE (2 * SeqSum(all_scores) + Len(all_scores)) \div (2 * Len(all_scores))

AggregatorRaises(st) ==
    \E r \in Range(st.profile_results) \cup Range(st.event_results)
             \cup Range(st.event_attr_results) : IsMalformed(r)

\* the except branch building its result without the error field
aggregate_results_node_NoErrorField(st, threshold, amb_threshold) ==
    [final_result |->
       [query |-> st.query,
        intent_type |-> st.intent_type,
        profile_attributes |-> <<>>,
        events |-> <<>>,
        event_attributes |-> <<>>,
        summary |-> IF AggregatorRaises(st) THEN "processing failed" ELSE NothingFound,
        total_results |-> 0,
        confidence_score |-> 0,
        has_ambiguity |-> FALSE,
        ambiguous_options |-> <<>>,
        execution_time |-> "0.0"]]

aggregate_results_node(st, threshold, amb_threshold) ==
    IF AggregatorRaises(st)
    THEN [final_result |->
            [query |-> st.query,
             error |-> "Aggregation failed",
             profile_attributes |-> <<>>,
             events |-> <<>>,
             event_attributes |-> <<>>,
             summary |-> "processing failed",
             total_results |-> 0,
             confidence_score |-> 0,
             has_ambiguity |-> FALSE,
             ambiguous_options |-> <<>>]]
    ELSE LET profile_attributes == _process_profile_results(st.profile_results, threshold)
             events == _process_event_results(st.event_results, threshold)
             event_attributes == _process_event_attr_results(st.event_attr_results, threshold)
             ambiguous_options == _detect_ambiguities(st.profile_results, st.event_results,
                                                      st.event_attr_results, amb_threshold)
             all_scores == SeqMap(LAMBDA a : a.score, profile_attributes)
                           \o SeqMap(LAMBDA e : e.score, events)
                           \o SeqMap(LAMBDA a : a.score, event_attributes)
         IN [final_result |->
               [query |-> st.query,
                intent_type |-> st.intent_type,
                profile_attributes |-> profile_attributes,
                events |-> events,
                event_attributes |-> event_attributes,
                summary |-> _generate_summary(profile_attributes, events, event_attributes),
                total_results |-> Len(profile_attributes) + Len(events)
                                  + Len(event_attributes),
                confidence_score |-> ConfidenceScore(all_scores),
                has_ambiguity |-> Len(ambiguous_options) > 0,
                ambiguous_options |-> ambiguous_options,
                execution_time |-> "0.0"]]


----------------------------------------------------------------------------
(* The graph runtime and run_agent *)

\* the wrapper returning the event update alone
Merge_SecondOnly(a, b) == b

\* {**a, **b}
Merge(a, b) ==
    [k \in DOMAIN a \cup DOMAIN b |-> IF k \in DOMAIN b THEN b[k] ELSE a[k]]

\* a node's update applied to the state: profile_results is declared with the
\* add reducer, every other key is overwritten
ApplyUpdates(st, update) ==
    [k \in DOMAIN st \cup DOMAIN update |->
       IF k \notin DOMAIN update THEN st[k]
       ELSE IF k = "profile_results" /\ k \in DOMAIN st THEN st[k] \o update[k]
       ELSE update[k]]

FreshState(query) ==
    [query |-> query,
     intent_type |-> "",
     profile_attributes |-> <<>>,
     events |-> <<>>,
     profile_results |-> <<>>,
     event_results |-> <<>>,
     event_attr_results |-> <<>>,
     final_result |-> NoneValue,
     error |-> NoneValue]

\* run_agent's initial_state: built fresh, or supplied by the caller
InitialStates ==
    { FreshState(q) : q \in Queries }
    \cup { [FreshState("user age") EXCEPT !.profile_results = <<Malformed>>] }

NoStage == [ran |-> FALSE, raised |-> FALSE, obtained |-> <<>>]

Stage(raised, obtained) == [ran |-> TRUE, raised |-> raised, obtained |-> obtained]

NodeNames ==
    {"intent_classification", "search_profiles", "search_events",
     "search_profiles_and_events", "search_event_attributes", "aggregate_results"}

\* the except branch of run_agent
RunAgentFailure(query) ==
    [query |-> query,
     error |-> Err("invoke failed"),
     final_result |->
        [query |-> query,
         error |-> "execution failed",
         profile_attributes |-> <<>>,
         events |-> <<>>,
         event_attributes |-> <<>>,
         summary |-> "execution failed",
         total_results |-> 0,
         confidence_score |-> 0,
         has_ambiguity |-> FALSE,
         ambiguous_options |-> <<>>,
         execution_time |-> "elapsed"]]

\* the try branch of run_agent once app.invoke has returned final_state
RunAgentResult(final_state) ==
    IF final_state.final_result = NoneValue
    THEN RunAgentFailure(final_state.query)
    ELSE [final_state EXCEPT
            !.final_result = Merge(@, [execution_time |-> "elapsed"])]

Init ==
    /\ pc = "intent_classification"
    /\ state \in InitialStates
    /\ returned = NoneValue
    /\ trace = <<>>
    /\ calls = <<>>
    /\ produced = [profiles |-> NoStage, events |-> NoStage, event_attributes |-> NoStage]
    /\ pending = NoneValue
    /\ legacy = NoneValue

IntentClassification ==
    /\ pc = "intent_classification"
    /\ \E outcome \in ExtractOutcomes :
         LET next_state == ApplyUpdates(state, intent_classification_node(state, outcome))
         IN /\ state' = next_state
            /\ pc' = RouteTarget(route_query(next_state))
    /\ trace' = Append(trace, "intent_classification")
    /\ UNCHANGED <<returned, calls, produced, pending, legacy>>

SearchProfiles ==
    /\ pc = "search_profiles"
    /\ \E in \in ProfileInputs(state) :
         /\ state' = ApplyUpdates(state, search_profiles_node(state, in, similarity_threshold))
         /\ calls' = calls \o ProfileCalls(state, in)
         /\ produced' = [produced EXCEPT !.profiles =
                           Stage(ProfileRaises(in),
                                 ProfileObtained(state, in, similarity_threshold))]
    /\ pc' = "aggregate_results"
    /\ trace' = Append(trace, "search_profiles")
    /\ UNCHANGED <<returned, pending, legacy>>

SearchEvents ==
    /\ pc = "search_events"
    /\ \E in \in EventInputs(state) :
         /\ state' = ApplyUpdates(state, search_events_node(state, in, similarity_threshold))
         /\ calls' = calls \o EventCalls(state, in)
         /\ produced' = [produced EXCEPT !.events =
                           Stage(EventRaises(in),
                                 EventObtained(state, in, similarity_threshold))]
    /\ pc' = "search_event_attributes"
    /\ trace' = Append(trace, "search_events")
    /\ UNCHANGED <<returned, pending, legacy>>

\* profiles_and_events_wrapper, first half: search_profiles_node on the state
WrapperSearchProfiles ==
    /\ pc = "search_profiles_and_events"
    /\ pending = NoneValue
    /\ \E in \in ProfileInputs(state) :
         /\ pending' = search_profiles_node(state, in, similarity_threshold)
         /\ calls' = calls \o ProfileCalls(state, in)
         /\ produced' = [produced EXCEPT !.profiles =
                           Stage(ProfileRaises(in),
                                 ProfileObtained(state, in, similarity_threshold))]
    /\ UNCHANGED <<pc, state, returned, trace, legacy>>

\* second half: search_events_node on the same state, then the merged update
WrapperSearchEvents ==
    /\ pc = "search_profiles_and_events"
    /\ pending # NoneValue
    /\ \E in \in EventInputs(state) :
         /\ state' = ApplyUpdates(state,
                        Merge(pending,
                              search_events_node(state, in, similarity_threshold)))
         /\ calls' = calls \o EventCalls(state, in)
         /\ produced' = [produced EXCEPT !.events =
                           Stage(EventRaises(in),
                                 EventObtained(state, in, similarity_threshold))]
    /\ pending' = NoneValue
    /\ pc' = "search_event_attributes"
    /\ trace' = Append(trace, "search_profiles_and_events")
    /\ UNCHANGED <<returned, legacy>>

SearchEventAttributes ==
    /\ pc = "search_event_attributes"
    /\ \E ins \in EventAttrInputs(state) :
         /\ state' = ApplyUpdates(state,
                        search_event_attributes_node(state, ins, similarity_threshold))
         /\ calls' = calls \o EventAttrCalls(state, ins)
         /\ produced' = [produced EXCEPT !.event_attributes =
                           Stage(EventAttrRaises(state, ins),
                                 EventAttrObtained(state, ins, similarity_threshold))]
    /\ pc' = "aggregate_results"
    /\ trace' = Append(trace, "search_event_attributes")
    /\ UNCHANGED <<returned, pending, legacy>>

AggregateResults ==
    /\ pc = "aggregate_results"
    /\ state' = ApplyUpdates(state,
                   aggregate_results_node(state, similarity_threshold, ambiguity_threshold))
    /\ pc' = "END"
    /\ trace' = Append(trace, "aggregate_results")
    /\ UNCHANGED <<returned, calls, produced, pending, legacy>>

\* app.invoke returned: run_agent stamps the execution time and returns
RunAgentReturn ==
    /\ pc = "END"
    /\ returned' = RunAgentResult(state)
    /\ pc' = "returned"
    /\ UNCHANGED <<state, trace, calls, produced, pending, legacy>>

\* app.invoke raised: run_agent's except branch builds the result
InvokeRaises ==
    /\ pc \in NodeNames
    /\ returned' = RunAgentFailure(state.query)
    /\ pc' = "returned"
    /\ UNCHANGED <<state, trace, calls, produced, pending, legacy>>

----------------------------------------------------------------------------
(* The legacy agent: NaturalLanguageQueryAgent.process_query on a query    *)
(* whose extraction yields structured events, and ResultAnalyzer.          *)

config_similarity_threshold == 65

event_search_limit == 5


score_gap_threshold == 8

legacy_event_limit == 2

LegacyEvents == << [event_description |-> "purchase", event_attributes |-> <<"amount">>] >>

\* the filtered attribute search of the legacy path: entries of any of the
\* events named in event_idnames
search_event_attributes_in(event_idnames) ==
    SearchAnswers({ e \in EventAttrCatalog : e.source \in Range(event_idnames) })

_calculate_relevance_score(similarity_score) ==
    IF similarity_score >= config_similarity_threshold
    THEN (IF (similarity_score * 11) \div 10 < 100
          THEN (similarity_score * 11) \div 10 ELSE 100)
    ELSE (similarity_score * 8) \div 10

ResultAnalyzer_get_confidence_level(relevance_score) ==
    IF relevance_score >= 80 THEN "high"
    ELSE IF relevance_score >= 60 THEN "medium"
    ELSE "low"

Abs(x) == IF x < 0 THEN -x ELSE x

_is_result_ambiguous(result, all_results) ==
    /\ Len(all_results) >= 2
    /\ \E i \in 1..Len(all_results) :
         /\ all_results[i] # result
         /\ Abs(all_results[i].score - result.score) < score_gap_threshold

RECURSIVE InsertByRelevanceDesc(_, _)
InsertByRelevanceDesc(r, sorted) ==
    IF sorted = <<>> THEN <<r>>
    ELSE IF Head(sorted).relevance_score >= r.relevance_score
         THEN <<Head(sorted)>> \o InsertByRelevanceDesc(r, Tail(sorted))
         ELSE <<r>> \o sorted

RECURSIVE SortByRelevanceDesc(_)
SortByRelevanceDesc(analyzed) ==
    IF analyzed = <<>> THEN <<>>
    ELSE InsertByRelevanceDesc(analyzed[Len(analyzed)],
                               SortByRelevanceDesc(SubSeq(analyzed, 1, Len(analyzed) - 1)))

\* one AnalyzedResult; source_name is the event a result belongs to
AnalyzedResult(result, all_results, category, source_name, field_name) ==
    [id |-> result.entry.id,
     score |-> result.score,
     source_name |-> source_name,
     field_name |-> field_name,
     relevance_score |-> _calculate_relevance_score(result.score),
     confidence_level |->
        ResultAnalyzer_get_confidence_level(_calculate_relevance_score(result.score)),
     category |-> category,
     is_ambiguous |-> _is_result_ambiguous(result, all_results)]

_analyze_event_results(results) ==
    SortByRelevanceDesc(
        [i \in 1..Len(results) |->
           AnalyzedResult(results[i], results, "event",
                          results[i].entry.idname, results[i].entry.source_name)])

_analyze_event_attribute_results(results) ==
    SortByRelevanceDesc(
        [i \in 1..Len(results) |->
           AnalyzedResult(results[i], results, "event_attribute",
                          results[i].entry.source, results[i].entry.idname)])

_detect_global_ambiguity(profile_results, event_results, event_attr_results) ==
    LET High(results) == results # <<>> /\ results[1].relevance_score >= 70
        Close(results) ==
            /\ Len(results) >= 2
            /\ Abs(results[1].relevance_score - results[2].relevance_score)
                 < score_gap_threshold
        categories == (IF High(profile_results) THEN 1 ELSE 0)
                      + (IF High(event_results) THEN 1 ELSE 0)
                      + (IF High(event_attr_results) THEN 1 ELSE 0)
    IN \/ categories > 1
       \/ Close(profile_results) \/ Close(event_results) \/ Close(event_attr_results)

_calculate_overall_confidence(profile_results, event_results, event_attr_results) ==
    LET tops == { r[1].relevance_score :
                    r \in { x \in {profile_results, event_results, event_attr_results} :
                              x # <<>> } }
    IN IF tops = {} THEN 0 ELSE CHOOSE m \in tops : \A t \in tops : t <= m

ResultAnalyzer_generate_summary(query, profile_results, event_results, event_attr_results) ==
    LET parts ==
          (IF profile_results # <<>>
           THEN << "profile attribute: " \o profile_results[1].field_name
                   \o " (" \o profile_results[1].confidence_level \o ")" >>
           ELSE <<>>)
          \o (IF event_results # <<>>
              THEN << "event: " \o event_results[1].field_name
                      \o " (" \o event_results[1].confidence_level \o ")" >>
              ELSE <<>>)
          \o (IF event_attr_results # <<>>
              THEN << "event attribute: " \o event_attr_results[1].source_name \o "."
                      \o event_attr_results[1].field_name
                      \o " (" \o event_attr_results[1].confidence_level \o ")" >>
              ELSE <<>>)
    IN IF parts = <<>> THEN "no result for '" \o query \o "'" ELSE Join("; ", parts)

analyze_search_results(query, event_results, event_attr_results) ==
    LET analyzed_profiles == <<>>
        analyzed_events == _analyze_event_results(event_results)
        analyzed_event_attrs == _analyze_event_attribute_results(event_attr_results)
    IN [query |-> query,
        profile_attributes |-> analyzed_profiles,
        events |-> analyzed_events,
        event_attributes |-> analyzed_event_attrs,
        has_ambiguity |-> _detect_global_ambiguity(analyzed_profiles, analyzed_events,
                                                   analyzed_event_attrs),
        confidence_score |-> _calculate_overall_confidence(analyzed_profiles,
                                                           analyzed_events,
                                                           analyzed_event_attrs),
        total_results |-> Len(analyzed_events) + Len(analyzed_event_attrs),
        execution_time |-> "elapsed",
        summary |-> ResultAnalyzer_generate_summary(query, analyzed_profiles,
                                                    analyzed_events, analyzed_event_attrs)]

RECURSIVE _deduplicate_results(_, _)
_deduplicate_results(results, seen) ==
    IF results = <<>> THEN <<>>
    ELSE IF Head(results).entry.id \in seen
         THEN _deduplicate_results(Tail(results), seen)
         ELSE <<Head(results)>>
              \o _deduplicate_results(Tail(results), seen \cup {Head(results).entry.id})

\* the event_idnames list built from the unthresholded event hits
EventIdnames(event_meta_results) ==
    SeqMap(LAMBDA e : e.entry.idname,
           SeqFilter(LAMBDA e : e.entry.idname # "", event_meta_results))

\* what the collaborators do during one structured event
LegacyInputs(event_info) ==
    LET event_answers == SearchAnswersUpTo(EventCatalog, legacy_event_limit)
        returned_answers == { x \in event_answers : ~x.raises }
    IN { [embed_raises |-> TRUE] }
       \cup { [embed_raises |-> FALSE, event_answer |-> ev, attr_embed_raises |-> TRUE] :
                ev \in event_answers }
       \cup UNION { { [embed_raises |-> FALSE, event_answer |-> ev,
                       attr_embed_raises |-> FALSE, attr_answers |-> a] :
                        a \in SeqProduct([j \in 1..Len(event_info.event_attributes) |->
                                            search_event_attributes_in(
                                                EventIdnames(ev.hits))]) } :
                     ev \in returned_answers }

\* the events part of _process_structured_query for one structured event:
\* the raw result lists and the attribute searches made
StructuredEvent(event_info, in) ==
    IF in.embed_raises \/ in.event_answer.raises
    THEN [event_results |-> <<>>, event_attr_results |-> <<>>, searches |-> <<>>]
    ELSE LET event_meta_results == in.event_answer.hits
             event_idnames == EventIdnames(event_meta_results)
             searched == /\ event_info.event_attributes # <<>>
                         /\ event_meta_results # <<>>
                         /\ event_idnames # <<>>
                         /\ ~in.attr_embed_raises
             n == Len(event_info.event_attributes)
         IN [event_results |-> event_meta_results,
             event_attr_results |->
                IF searched
                THEN Flatten([j \in 1..n |->
                                IF in.attr_answers[j].raises THEN <<>>
                                ELSE in.attr_answers[j].hits])
                ELSE <<>>,
             searches |->
                IF searched
                THEN [j \in 1..n |->
                        [text |-> event_info.event_attributes[j],
                         event_idnames |-> event_idnames,
                         hits |-> IF in.attr_answers[j].raises THEN <<>>
                                  ELSE in.attr_answers[j].hits]]
                ELSE <<>>]

\* the structured path for one structured event: the loop body, the
\* deduplication of the collected lists and the analysis
StructuredQuery(query, event_info, in) ==
    LET run == StructuredEvent(event_info, in)
    IN [raised |-> FALSE,
        searches |-> run.searches,
        result |-> analyze_search_results(query,
                                          _deduplicate_results(run.event_results, {}),
                                          _deduplicate_results(run.event_attr_results, {}))]

_process_structured_query(query, in) == StructuredQuery(query, LegacyEvents[1], in)

\* process_query: the readiness guard, classify_intent, the structured path
process_query(query, ready, classify_raises, in) ==
    IF ~ready
    THEN [raised |-> TRUE, searches |-> <<>>, result |-> NoneValue]
    ELSE IF classify_raises
    THEN [raised |-> FALSE,
          searches |-> <<>>,
          result |-> [query |-> query,
                      profile_attributes |-> <<>>,
                      events |-> <<>>,
                      event_attributes |-> <<>>,
                      has_ambiguity |-> FALSE,
                      confidence_score |-> 0,
                      total_results |-> 0,
                      execution_time |-> "elapsed",
                      summary |-> "query processing failed"]]
    ELSE _process_structured_query(query, in)

\* a caller invokes the legacy entry point instead of run_agent
LegacyProcessQuery ==
    /\ pc = "intent_classification"
    /\ state \in { FreshState(q) : q \in Queries }
    /\ \E ready \in BOOLEAN, classify_raises \in BOOLEAN :
         \E in \in LegacyInputs(LegacyEvents[1]) :
            legacy' = process_query(state.query, ready, classify_raises, in)
    /\ pc' = "legacy_returned"
    /\ UNCHANGED <<state, returned, trace, calls, produced, pending>>

Next ==
    \/ IntentClassification
    \/ SearchProfiles
    \/ SearchEvents
    \/ WrapperSearchProfiles
    \/ WrapperSearchEvents
    \/ SearchEventAttributes
    \/ AggregateResults
    \/ RunAgentReturn
    \/ InvokeRaises
    \/ LegacyProcessQuery

Spec == Init /\ [][Next]_vars


\* the workflow alone: runs in which app.invoke returns
PipelineNext ==
    \/ IntentClassification
    \/ SearchProfiles
    \/ SearchEvents
    \/ WrapperSearchProfiles
    \/ WrapperSearchEvents
    \/ SearchEventAttributes
    \/ AggregateResults
    \/ RunAgentReturn

Pipeline == Init /\ [][PipelineNext]_vars

----------------------------------------------------------------------------
(* One resolver stage on arbitrary search answers *)

SelectScores == {40, 50, 80, 90}

SelectAnswers(entries) ==
    LET HitSet == { Hit(e, sc) : e \in entries, sc \in SelectScores }
        n == IF MaxHits < search_limit THEN MaxHits ELSE search_limit
    IN { [raises |-> FALSE, hits |-> h] :
           h \in { x \in UNION { [1..k -> HitSet] : k \in 0..n } : DistinctIds(x) } }

SelectProfileAttributes ==
    << [attribute_name |-> "age", query_text |-> "age"],
       [attribute_name |-> "gender", query_text |-> "gender"] >>

SelectEventQueries ==
    << [event_description |-> "purchase", event_attributes |-> <<>>],
       [event_description |-> "login", event_attributes |-> <<"amount">>] >>

SelectStates ==
    { [FreshState("user age") EXCEPT !.profile_attributes = SubSeq(SelectProfileAttributes, 1, n)] :
        n \in 1..2 }
    \cup { [FreshState("purchase events") EXCEPT !.events = SubSeq(SelectEventQueries, 1, n)] :
             n \in 1..2 }

SelectInit ==
    /\ pc = "select"
    /\ state \in SelectStates
    /\ returned = NoneValue
    /\ trace = <<>>
    /\ calls = <<>>
    /\ produced = [profiles |-> NoStage, events |-> NoStage, event_attributes |-> NoStage]
    /\ pending = NoneValue
    /\ legacy = NoneValue

\* search_profiles_node on the drawn answers; pending keeps the answers
SelectProfiles ==
    /\ pc = "select"
    /\ state.profile_attributes # <<>>
    /\ \E a \in SeqProduct([i \in 1..Len(state.profile_attributes) |->
                              SelectAnswers(ProfileCatalog)]) :
         /\ pending' = a
         /\ returned' = search_profiles_node(state, [embed_raises |-> FALSE, answers |-> a],
                                             similarity_threshold)
    /\ pc' = "selected_profiles"
    /\ UNCHANGED <<state, trace, calls, produced, legacy>>

SelectEvents ==
    /\ pc = "select"
    /\ state.events # <<>>
    /\ \E a \in SeqProduct([i \in 1..Len(state.events) |-> SelectAnswers(EventCatalog)]) :
         /\ pending' = a
         /\ returned' = search_events_node(state, [embed_raises |-> FALSE, answers |-> a],
                                           similarity_threshold)
    /\ pc' = "selected_events"
    /\ UNCHANGED <<state, trace, calls, produced, legacy>>

SelectNext ==
    \/ SelectProfiles
    \/ SelectEvents

SelectSpec == SelectInit /\ [][SelectNext]_vars

----------------------------------------------------------------------------
(* The ambiguity flag of a resolver stage: scores around the margin *)

AmbiguityScores == {40, 70, 75, 76, 80}

\* two attributes of the same event, so that one filtered search can return
\* two candidates
AmbiguityAttrCatalog ==
    { [id |-> "A1", idname |-> "amount", source_name |-> "Amount", source |-> "purchase"],
      [id |-> "A3", idname |-> "price", source_name |-> "Price", source |-> "purchase"] }

AmbiguityAnswers(entries) ==
    LET HitSet == { Hit(e, sc) : e \in entries, sc \in AmbiguityScores }
        n == IF MaxHits < search_limit THEN MaxHits ELSE search_limit
    IN { [raises |-> FALSE, hits |-> h] :
           h \in { x \in UNION { [1..k -> HitSet] : k \in 0..n } : DistinctIds(x) } }

\* an event stage output: one resolved event with one or two attribute queries
AmbiguityEventResult(n) ==
    [matched_field |-> [id |-> "E1", score |-> 80, source |-> "",
                        source_name |-> "Purchase", idname |-> "purchase"],
     original_query |-> "purchase",
     event_attributes |-> SubSeq(<<"amount", "price">>, 1, n)]

AmbiguityStates ==
    { [FreshState("user age") EXCEPT !.profile_attributes = SubSeq(SelectProfileAttributes, 1, n)] :
        n \in 1..2 }
    \cup { [FreshState("purchase events") EXCEPT !.event_results = <<AmbiguityEventResult(n)>>] :
             n \in 1..2 }

AmbiguityInit ==
    /\ pc = "ambiguity"
    /\ state \in AmbiguityStates
    /\ returned = NoneValue
    /\ trace = <<>>
    /\ calls = <<>>
    /\ produced = [profiles |-> NoStage, events |-> NoStage, event_attributes |-> NoStage]
    /\ pending = NoneValue
    /\ legacy = NoneValue

\* search_profiles_node as the graph calls it: the margin is the default
AmbiguityProfiles ==
    /\ pc = "ambiguity"
    /\ state.profile_attributes # <<>>
    /\ \E a \in SeqProduct([i \in 1..Len(state.profile_attributes) |->
                              AmbiguityAnswers(ProfileCatalog)]) :
         /\ pending' = a
         /\ returned' = search_profiles_node(state, [embed_raises |-> FALSE, answers |-> a],
                                             similarity_threshold)
    /\ pc' = "ambiguity_profiles"
    /\ UNCHANGED <<state, trace, calls, produced, legacy>>

\* search_event_attributes_node on the one resolved event
AmbiguityEventAttributes ==
    /\ pc = "ambiguity"
    /\ state.event_results # <<>>
    /\ \E a \in SeqProduct([j \in 1..Len(state.event_results[1].event_attributes) |->
                              AmbiguityAnswers(AmbiguityAttrCatalog)]) :
         /\ pending' = a
         /\ returned' = search_event_attributes_node(
                           state, << [embed_raises |-> FALSE, answers |-> a] >>,
                           similarity_threshold)
    /\ pc' = "ambiguity_event_attributes"
    /\ UNCHANGED <<state, trace, calls, produced, legacy>>

AmbiguityNext ==
    \/ AmbiguityProfiles
    \/ AmbiguityEventAttributes

AmbiguitySpec == AmbiguityInit /\ [][AmbiguityNext]_vars

----------------------------------------------------------------------------
(* The Aggregator on arbitrary resolver outputs: scores below, at and above *)
(* the similarity and ambiguity thresholds, repeated catalog entries, and   *)
(* the same query text in several categories.                               *)

AggregateScores == {40, 50, 75, 90}

AggregateQueries == {"purchase", "amount"}

AggregateProfileMatch(entry, score, query) ==
    [matched_field |-> [id |-> entry.id, score |-> score,
                        source |-> entry.source_name, source_name |-> entry.source_name,
                        idname |-> entry.idname, has_ambiguity |-> FALSE],
     original_query |-> query,
     original_attribute |-> query]

AggregateEventMatch(entry, score, query) ==
    [matched_field |-> [id |-> entry.id, score |-> score, source |-> "",
                        source_name |-> entry.source_name, idname |-> entry.idname],
     original_query |-> query,
     event_attributes |-> <<>>]

AggregateAttrMatch(entry, score, query) ==
    [matched_field |-> [id |-> entry.id, score |-> score,
                        source_name |-> entry.source_name, idname |-> entry.idname,
                        source |-> entry.source, has_ambiguity |-> FALSE],
     original_query |-> query,
     source |-> entry.source,
     event_name |-> (CHOOSE e \in EventCatalog : e.idname = entry.source).source_name]

AggregateMatches(category) ==
    IF category = "profile"
    THEN { AggregateProfileMatch(e, sc, q) :
             e \in ProfileCatalog, sc \in AggregateScores, q \in AggregateQueries }
    ELSE IF category = "event"
    THEN { AggregateEventMatch(e, sc, q) :
             e \in EventCatalog, sc \in AggregateScores, q \in AggregateQueries }
    ELSE { AggregateAttrMatch(e, sc, q) :
             e \in EventAttrCatalog, sc \in AggregateScores, q \in AggregateQueries }

\* the output of a stage with up to MaxMatches matches
AggregateLong(category) ==
    UNION { [1..k -> AggregateMatches(category)] : k \in 0..MaxMatches }

\* the output of another stage: nothing, or one match for the query
\* "purchase" below or above both thresholds
AggregateShort(category) ==
    { <<>> } \cup { <<m>> : m \in { x \in AggregateMatches(category) :
                                      /\ x.original_query = "purchase"
                                      /\ x.matched_field.id \in {"P1", "E1"}
                                      /\ x.matched_field.score \in {40, 90} } }

\* the pipeline state before the Aggregator: one stage with a long output
\* (focus), one other stage with a short one
AggregateState(focus, long, short) ==
    IF focus = "profile"
    THEN [FreshState("purchase events") EXCEPT !.profile_results = long,
                                               !.event_results = short]
    ELSE IF focus = "event"
    THEN [FreshState("purchase events") EXCEPT !.profile_results = short,
                                               !.event_results = long]
    ELSE [FreshState("purchase events") EXCEPT !.event_results = short,
                                               !.event_attr_results = long]

AggregateInit ==
    /\ pc = "aggregate"
    /\ \E focus \in {"profile", "event", "event_attribute"} :
         \E long \in AggregateLong(focus) :
           \E short \in AggregateShort(IF focus = "event" THEN "profile" ELSE "event") :
             state = AggregateState(focus, long, short)
    /\ returned = NoneValue
    /\ trace = <<>>
    /\ calls = <<>>
    /\ produced = [profiles |-> NoStage, events |-> NoStage, event_attributes |-> NoStage]
    /\ pending = NoneValue
    /\ legacy = NoneValue

\* aggregate_results_node as the graph calls it
Aggregate ==
    /\ pc = "aggregate"
    /\ state' = ApplyUpdates(state,
                   aggregate_results_node(state, similarity_threshold, ambiguity_threshold))
    /\ pc' = "aggregated"
    /\ UNCHANGED <<returned, trace, calls, produced, pending, legacy>>

AggregateNext == Aggregate

AggregateSpec == AggregateInit /\ [][AggregateNext]_vars

----------------------------------------------------------------------------
(* process_query when several searches of one query can return the same    *)
(* catalog entry: two attribute queries of one structured event, and the   *)
(* keyword path with its primary and enhanced searches.                    *)

\* one structured event with two attribute queries
TwoAttributeEvent ==
    [event_description |-> "purchase", event_attributes |-> <<"amount", "price">>]

\* the searches of the enhanced queries: raising ones are skipped, the rest
\* is sorted by score, deduplicated by id and cut to the limit
_search_with_enhanced_queries(answers, limit) ==
    LET all_results == Flatten([i \in 1..Len(answers) |->
                                  IF answers[i].raises THEN <<>> ELSE answers[i].hits])
        unique_results == _deduplicate_results(SortedByScoreDesc(all_results), {})
    IN SubSeq(unique_results, 1,
              IF Len(unique_results) < limit THEN Len(unique_results) ELSE limit)

\* _search_events: the enhanced results replace the primary ones when the
\* primary search returned fewer than three
_search_events(primary, use_enhanced_queries, enhanced, threshold) ==
    IF primary.raises THEN <<>>
    ELSE LET results == IF Len(primary.hits) < 3 /\ use_enhanced_queries
                        THEN _search_with_enhanced_queries(enhanced, event_search_limit)
                        ELSE primary.hits
         IN ValidResults(results, threshold)

_search_event_attributes(event_results, answer, threshold) ==
    IF EventIdnames(event_results) = <<>> \/ answer.raises THEN <<>>
    ELSE ValidResults(answer.hits, threshold)

\* what the store answers on the keyword path: the primary event search,
\* the search of one enhanced query, and the attribute search filtered to
\* the events kept; the profile searches return nothing
KeywordInputs(use_enhanced_queries, threshold) ==
    UNION { { [primary |-> p, enhanced |-> <<e>>, attr_answer |-> a] :
                a \in IF EventIdnames(_search_events(p, use_enhanced_queries, <<e>>,
                                                     threshold)) = <<>>
                      THEN { [raises |-> FALSE, hits |-> <<>>] }
                      ELSE search_event_attributes_in(
                               EventIdnames(_search_events(p, use_enhanced_queries, <<e>>,
                                                           threshold))) } :
            p \in SearchAnswers(EventCatalog),
            e \in SearchAnswersUpTo(EventCatalog, event_search_limit \div 2) }

\* the keyword path of process_query
KeywordQuery(query, use_enhanced_queries, threshold, in) ==
    LET event_results == _search_events(in.primary, use_enhanced_queries, in.enhanced,
                                        threshold)
        event_attr_results ==
            IF event_results = <<>> THEN <<>>
            ELSE _search_event_attributes(event_results, in.attr_answer, threshold)
    IN [raised |-> FALSE,
        searches |-> <<>>,
        result |-> analyze_search_results(query, event_results, event_attr_results)]

Returned(answer) == IF answer.raises THEN <<>> ELSE answer.hits

LegacySearchInit ==
    /\ pc = "process_query"
    /\ state = FreshState("purchase events")
    /\ returned = NoneValue
    /\ trace = <<>>
    /\ calls = <<>>
    /\ produced = [profiles |-> NoStage, events |-> NoStage, event_attributes |-> NoStage]
    /\ pending = NoneValue
    /\ legacy = NoneValue

\* process_query on the structured path; pending keeps what every attribute
\* search returned
StructuredProcessQuery ==
    /\ pc = "process_query"
    /\ \E in \in LegacyInputs(TwoAttributeEvent) :
         /\ legacy' = StructuredQuery(state.query, TwoAttributeEvent, in)
         /\ pending' = [list |-> "event_attributes",
                        threshold |-> 0,
                        observed |-> SeqMap(LAMBDA x : x.hits, legacy'.searches)]
    /\ pc' = "structured_returned"
    /\ UNCHANGED <<state, returned, trace, calls, produced>>

\* process_query on the keyword path; pending keeps what the primary and
\* the enhanced event search returned
KeywordProcessQuery ==
    /\ pc = "process_query"
    /\ \E use_enhanced_queries \in BOOLEAN :
         \E in \in KeywordInputs(use_enhanced_queries, config_similarity_threshold) :
           /\ legacy' = KeywordQuery(state.query, use_enhanced_queries,
                                     config_similarity_threshold, in)
           /\ pending' = [list |-> "events",
                          threshold |-> config_similarity_threshold,
                          observed |-> IF in.primary.raises THEN <<>>
                                       ELSE IF use_enhanced_queries
                                       THEN <<in.primary.hits, Returned(in.enhanced[1])>>
                                       ELSE <<in.primary.hits>>]
    /\ pc' = "keyword_returned"
    /\ UNCHANGED <<state, returned, trace, calls, produced>>

LegacySearchNext ==
    \/ StructuredProcessQuery
    \/ KeywordProcessQuery

LegacySearchSpec == LegacySearchInit /\ [][LegacySearchNext]_vars

----------------------------------------------------------------------------
(* EmbeddingCache and EmbeddingManager.  A Python dict is a sequence of     *)
(* entries in insertion order.  The embedding model is deterministic: the   *)
(* vector of a text is a function of the text.  The texts of the model are  *)
(* shorter than max_length, so the truncation text[:max_length] leaves     *)
(* them as they are.                                                        *)

DictHas(d, key) == \E i \in 1..Len(d) : d[i].key = key

DictGet(d, key) == d[CHOOSE i \in 1..Len(d) : d[i].key = key]

DictDel(d, key) == SeqFilter(LAMBDA e : e.key # key, d)

\* d[key] = entry: an existing key keeps its position, a new one goes last
DictSet(d, entry) ==
    IF DictHas(d, entry.key)
    THEN [i \in 1..Len(d) |-> IF d[i].key = entry.key THEN entry ELSE d[i]]
    ELSE Append(d, entry)

EmptyCache == [cache |-> <<>>, access_times |-> <<>>]

_get_key(text) == "md5:" \o text

\* model.encode on one text
DenseVec(text) == "vec:" \o text

Miss == [hit |-> FALSE]

\* get that renews the timestamp of the entry it returns
EmbeddingCache_get_RenewsOnRead(c, text, current_time) ==
    LET key == _get_key(text) IN
    IF DictHas(c.cache, key)
    THEN IF current_time - DictGet(c.cache, key).timestamp > ttl
         THEN [value |-> Miss,
               cache |-> [cache |-> DictDel(c.cache, key),
                          access_times |-> DictDel(c.access_times, key)]]
         ELSE [value |-> [hit |-> TRUE, embedding |-> DictGet(c.cache, key).embedding],
               cache |-> [cache |-> DictSet(c.cache,
                                            [key |-> key,
                                             embedding |-> DictGet(c.cache, key).embedding,
                                             timestamp |-> current_time]),
                          access_times |->
                            DictSet(c.access_times, [key |-> key, time |-> current_time])]]
    ELSE [value |-> Miss, cache |-> c]

\* EmbeddingCache.get: the value found, if any, and the cache afterwards
EmbeddingCache_get(c, text, current_time) ==
    LET key == _get_key(text) IN
    IF DictHas(c.cache, key)
    THEN IF current_time - DictGet(c.cache, key).timestamp > ttl
         THEN [value |-> Miss,
               cache |-> [cache |-> DictDel(c.cache, key),
                          access_times |-> DictDel(c.access_times, key)]]
         ELSE [value |-> [hit |-> TRUE, embedding |-> DictGet(c.cache, key).embedding],
               cache |-> [c EXCEPT !.access_times =
                            DictSet(@, [key |-> key, time |-> current_time])]]
    ELSE [value |-> Miss, cache |-> c]

\* min(access_times.keys(), key=access time) on a map that is not empty
OldestKey(access_times) ==
    LET oldest == CHOOSE i \in 1..Len(access_times) :
                    /\ \A j \in 1..Len(access_times) :
                         access_times[i].time <= access_times[j].time
                    /\ \A j \in 1..(i - 1) :
                         access_times[j].time > access_times[i].time
    IN access_times[oldest].key

\* eviction of the entry inserted first, whenever it was last read
_evict_oldest_FirstInserted(c) ==
    IF c.access_times = <<>> THEN c
    ELSE LET oldest_key == c.access_times[1].key
         IN [cache |-> DictDel(c.cache, oldest_key),
             access_times |-> DictDel(c.access_times, oldest_key)]

\* _evict_oldest: the first key with the smallest access time leaves both maps
_evict_oldest(c) ==
    IF c.access_times = <<>> THEN c
    ELSE LET oldest_key == OldestKey(c.access_times)
         IN [cache |-> DictDel(c.cache, oldest_key),
             access_times |-> DictDel(c.access_times, oldest_key)]

\* put that evicts only once the cache holds more than max_size entries
EmbeddingCache_put_EvictsLate(c, text, embedding, current_time) ==
    LET key == _get_key(text)
        room == IF Len(c.cache) > max_size THEN _evict_oldest(c) ELSE c
    IN [cache |-> DictSet(room.cache,
                          [key |-> key, embedding |-> embedding,
                           timestamp |-> current_time]),
        access_times |-> DictSet(room.access_times, [key |-> key, time |-> current_time])]

EmbeddingCache_put(c, text, embedding, current_time) ==
    LET key == _get_key(text)
        room == IF Len(c.cache) >= max_size THEN _evict_oldest(c) ELSE c
    IN [cache |-> DictSet(room.cache,
                          [key |-> key, embedding |-> embedding,
                           timestamp |-> current_time]),
        access_times |-> DictSet(room.access_times, [key |-> key, time |-> current_time])]

\* EmbeddingCache.clear: both maps are emptied
EmbeddingCache_clear(c) == [cache |-> <<>>, access_times |-> <<>>]

\* EmbeddingCache.size
EmbeddingCache_size(c) == Len(c.cache)

\* encode_single on a ready manager whose model does not fail
encode_single(c, text, current_time) ==
    LET cached == EmbeddingCache_get(c, text, current_time) IN
    IF cached.value.hit
    THEN [embedding |-> cached.value.embedding, cache |-> cached.cache]
    ELSE [embedding |-> DenseVec(text),
          cache |-> EmbeddingCache_put(cached.cache, text, DenseVec(text), current_time)]

\* the first loop of encode_batch: cache.get on every text in order
RECURSIVE BatchLookup(_, _, _, _, _)
BatchLookup(c, texts, i, current_time, found) ==
    IF i > Len(texts) THEN [cache |-> c, found |-> found]
    ELSE LET cached == EmbeddingCache_get(c, texts[i], current_time)
         IN BatchLookup(cached.cache, texts, i + 1, current_time,
                        Append(found, cached.value))

\* the second loop: the uncached texts in batches of batch_size, every new
\* embedding put into the cache under its text
RECURSIVE BatchStore(_, _, _, _, _)
BatchStore(c, texts, uncached_indices, k, current_time) ==
    IF k > Len(uncached_indices) THEN c
    ELSE BatchStore(EmbeddingCache_put(c, texts[uncached_indices[k]],
                                       DenseVec(texts[uncached_indices[k]]), current_time),
                    texts, uncached_indices, k + 1, current_time)

\* the number of model.encode calls encode_batch makes
ModelCalls(uncached_indices) == (Len(uncached_indices) + batch_size - 1) \div batch_size

\* the cached embeddings placed before the new ones
encode_batch_CachedFirst(c, texts, current_time) ==
    LET looked == BatchLookup(c, texts, 1, current_time, <<>>)
        hits == SeqFilter(LAMBDA i : looked.found[i].hit, [i \in 1..Len(texts) |-> i])
        uncached_indices ==
            SeqFilter(LAMBDA i : ~looked.found[i].hit, [i \in 1..Len(texts) |-> i])
    IN [embeddings |-> [k \in 1..Len(hits) |-> looked.found[hits[k]].embedding]
                       \o [k \in 1..Len(uncached_indices) |->
                              DenseVec(texts[uncached_indices[k]])],
        cache |-> BatchStore(looked.cache, texts, uncached_indices, 1, current_time),
        model_calls |-> ModelCalls(uncached_indices)]

\* encode_batch on a ready manager whose model does not fail
encode_batch(c, texts, current_time) ==
    LET looked == BatchLookup(c, texts, 1, current_time, <<>>)
        uncached_indices ==
            SeqFilter(LAMBDA i : ~looked.found[i].hit, [i \in 1..Len(texts) |-> i])
    IN [embeddings |-> [i \in 1..Len(texts) |->
                          IF looked.found[i].hit THEN looked.found[i].embedding
                          ELSE DenseVec(texts[i])],
        cache |-> BatchStore(looked.cache, texts, uncached_indices, 1, current_time),
        model_calls |-> ModelCalls(uncached_indices)]

----------------------------------------------------------------------------
(* A session of run_agent calls on one application: the embedding cache    *)
(* lives in the application and outlasts every call, the catalog and the   *)
(* collaborators stay as they are.  The extraction service answers as a    *)
(* function of the query and the store as a function of the query vector.  *)
(* pending holds the cache and the clock, legacy the collaborators,         *)
(* returned the first final state of the query "user age" and state the    *)
(* latest one.                                                              *)

NoHits == [raises |-> FALSE, hits |-> <<>>]

SessionExtracts ==
    { [person_attributes |-> Dict(<< <<"age", "25-35">> >>)],
      [person_attributes |-> List(<<"age", "gender">>)],
      [person_attributes |-> Dict(<< <<"age", "25-35">> >>),
       behavioral_events |-> List(<<EvPurchase>>)] }

SessionProfileVectors == { DenseVec(t) : t \in {"age: 25-35", "age", "gender"} }

SessionProfileAnswers ==
    { NoHits,
      [raises |-> FALSE,
       hits |-> << Hit([id |-> "P1", idname |-> "age_group", source_name |-> "customer"], 80) >>] }

SessionWorlds ==
    { [extract |-> [q \in Queries |->
                      [raises |-> FALSE,
                       structured_query |->
                          IF q = "user age" THEN sq
                          ELSE [behavioral_events |-> List(<<EvPurchase>>)]]],
       profile_store |-> ps] :
        sq \in SessionExtracts,
        ps \in { f \in [SessionProfileVectors -> SessionProfileAnswers] :
                   f[DenseVec("gender")] = NoHits } }

\* the event partition and the attributes of one event, by query vector
EventStore(vec) ==
    IF vec = DenseVec("purchase")
    THEN [raises |-> FALSE,
          hits |-> << Hit([id |-> "E1", idname |-> "purchase", source_name |-> "Purchase"], 90) >>]
    ELSE NoHits

EventAttrStore(vec, source) ==
    IF vec = DenseVec("amount") /\ source = "purchase"
    THEN [raises |-> FALSE,
          hits |-> << Hit([id |-> "A1", idname |-> "amount", source_name |-> "Amount",
                           source |-> "purchase"], 80) >>]
    ELSE NoHits

\* the outer loop of search_event_attributes_node: one encode per event that
\* names attributes, the cache handed from one to the next
RECURSIVE EventAttrEncode(_, _, _, _, _)
EventAttrEncode(c, event_results, i, current_time, ins) ==
    IF i > Len(event_results) THEN [cache |-> c, ins |-> ins]
    ELSE IF ~SearchesAttributes(event_results[i])
    THEN EventAttrEncode(c, event_results, i + 1, current_time,
                         Append(ins, [embed_raises |-> FALSE, answers |-> <<>>]))
    ELSE LET enc == encode_batch(c, event_results[i].event_attributes, current_time)
         IN EventAttrEncode(enc.cache, event_results, i + 1, current_time,
                Append(ins,
                       [embed_raises |-> FALSE,
                        answers |-> [j \in 1..Len(enc.embeddings) |->
                                       EventAttrStore(enc.embeddings[j],
                                                      EventSource(event_results[i]))]]))

\* The stages of one run.  Each takes the state and the cache the stage
\* before it left and yields, as a set of one element, the state and the
\* cache it leaves.

\* search_profiles_node: the node's update and the cache after its encode
ProfileStage(s1, c, world, current_time) ==
    UNION { { [update |-> search_profiles_node(s1, in, similarity_threshold),
               cache |-> enc.cache] :
                 in \in { [embed_raises |-> FALSE,
                           answers |-> [i \in 1..Len(enc.embeddings) |->
                                          world.profile_store[enc.embeddings[i]]]] } } :
            enc \in { encode_batch(c,
                                    SeqMap(LAMBDA a : a.query_text, s1.profile_attributes),
                                    current_time) } }

\* search_events_node: the node's update and the cache after its encode
EventStage(s1, c, current_time) ==
    UNION { { [update |-> search_events_node(s1, in, similarity_threshold),
               cache |-> enc.cache] :
                 in \in { [embed_raises |-> FALSE,
                           answers |-> [i \in 1..Len(enc.embeddings) |->
                                          EventStore(enc.embeddings[i])]] } } :
            enc \in { encode_batch(c,
                                    SeqMap(LAMBDA e : e.event_description, s1.events),
                                    current_time) } }

\* the node the router picks, or the wrapper running both nodes on s1
SearchStage(s1, c, world, current_time) ==
    LET target == RouteTarget(route_query(s1)) IN
    IF target = "search_profiles"
    THEN { [st |-> ApplyUpdates(s1, p.update), cache |-> p.cache, events |-> FALSE] :
             p \in ProfileStage(s1, c, world, current_time) }
    ELSE IF target = "search_events"
    THEN { [st |-> ApplyUpdates(s1, e.update), cache |-> e.cache, events |-> TRUE] :
             e \in EventStage(s1, c, current_time) }
    ELSE UNION { { [st |-> ApplyUpdates(s1, Merge(p.update, e.update)),
                    cache |-> e.cache, events |-> TRUE] :
                     e \in EventStage(s1, p.cache, current_time) } :
                 p \in ProfileStage(s1, c, world, current_time) }

\* search_event_attributes_node, on the event routes only
EventAttrStage(r, current_time) ==
    IF ~r.events THEN {r}
    ELSE { [st |-> ApplyUpdates(r.st,
                      search_event_attributes_node(r.st, enc.ins, similarity_threshold)),
            cache |-> enc.cache, events |-> TRUE] :
             enc \in { EventAttrEncode(r.cache, r.st.event_results, 1, current_time, <<>>) } }

\* run_agent(app, query, initial_state): the final state it returns and the
\* cache it leaves
run_agent(query, initial_state, world, c, current_time) ==
    CHOOSE run \in
      { [final_state |->
            RunAgentResult(ApplyUpdates(r3.st,
                aggregate_results_node(r3.st, similarity_threshold, ambiguity_threshold))),
         cache |-> r3.cache] :
          r3 \in UNION { EventAttrStage(r2, current_time) :
                   r2 \in UNION { SearchStage(s1, c, world, current_time) :
                            s1 \in { ApplyUpdates(s0,
                                        intent_classification_node(s0, world.extract[query])) :
                                     s0 \in { IF initial_state = NoneValue
                                              THEN FreshState(query)
                                              ELSE [initial_state EXCEPT
                                                      !.query = query] } } } } } : TRUE

SessionInit ==
    /\ pc = "session"
    /\ state = NoneValue
    /\ returned = NoneValue
    /\ trace = <<>>
    /\ calls = <<>>
    /\ produced = NoneValue
    /\ pending = [cache |-> EmptyCache, now |-> 0]
    /\ legacy \in SessionWorlds

\* the clock advances between two calls
Tick ==
    /\ pc \in {"session", "fresh", "resumed", "other", "batch", "batched", "singly",
              "cache", "got", "stored", "cleared", "racing"}
    /\ pending.now < MaxTime
    /\ pending' = [pending EXCEPT !.now = @ + 1]
    /\ UNCHANGED <<pc, state, returned, trace, calls, produced, legacy>>

\* run_agent on another query in between
RunOther ==
    /\ pc \in {"session", "fresh", "resumed", "other"}
    /\ LET run == run_agent("purchase events", NoneValue, legacy, pending.cache, pending.now)
       IN pending' = [pending EXCEPT !.cache = run.cache]
    /\ pc' = "other"
    /\ UNCHANGED <<state, returned, trace, calls, produced, legacy>>

\* run_agent(app, "user age"): the initial state is built by run_agent
RunFresh ==
    /\ pc \in {"session", "fresh", "resumed", "other"}
    /\ LET run == run_agent("user age", NoneValue, legacy, pending.cache, pending.now)
       IN /\ pending' = [pending EXCEPT !.cache = run.cache]
          /\ state' = run.final_state
          /\ returned' = IF returned = NoneValue THEN run.final_state ELSE returned
    /\ pc' = "fresh"
    /\ UNCHANGED <<trace, calls, produced, legacy>>

\* run_agent(app, "user age", initial_state): the caller hands back the
\* state the run before returned
RunResumed ==
    /\ pc \in {"fresh", "resumed", "other"}
    /\ state # NoneValue
    /\ Len(state.profile_results) <= MaxMatches
    /\ LET run == run_agent("user age", state, legacy, pending.cache, pending.now)
       IN /\ pending' = [pending EXCEPT !.cache = run.cache]
          /\ state' = run.final_state
    /\ pc' = "resumed"
    /\ UNCHANGED <<returned, trace, calls, produced, legacy>>

SessionNext == Tick \/ RunOther \/ RunFresh \/ RunResumed

SessionSpec == SessionInit /\ [][SessionNext]_vars

----------------------------------------------------------------------------
(* A resolver stage on one list of query texts, embedded in one batched    *)
(* call or one text at a time.  legacy holds the store, pending the cache  *)
(* and the clock.                                                          *)

BatchTexts == {"age", "gender"}

BatchLists == UNION { [1..n -> BatchTexts] : n \in 1..MaxBatch }

BatchStores ==
    { [v \in { DenseVec(t) : t \in BatchTexts } |->
         IF v = DenseVec("age") THEN a
         ELSE [raises |-> FALSE,
               hits |-> << Hit([id |-> "P2", idname |-> "gender",
                                source_name |-> "customer"], 90) >>]] :
        a \in SessionProfileAnswers }

\* encode(text) on each text in turn, the cache handed from one to the next
RECURSIVE EncodeEach(_, _, _, _, _)
EncodeEach(c, texts, i, current_time, embeddings) ==
    IF i > Len(texts) THEN [embeddings |-> embeddings, cache |-> c]
    ELSE LET enc == encode_single(c, texts[i], current_time)
         IN EncodeEach(enc.cache, texts, i + 1, current_time,
                       Append(embeddings, enc.embedding))

AttributesOf(texts) ==
    [i \in 1..Len(texts) |-> [attribute_name |-> texts[i], query_text |-> texts[i]]]

\* the matches of search_profiles_node on the whole list
ResolvedTogether(store, texts, embeddings) ==
    search_profiles_node(
        [profile_attributes |-> AttributesOf(texts)],
        [embed_raises |-> FALSE,
         answers |-> [i \in 1..Len(embeddings) |-> store[embeddings[i]]]],
        similarity_threshold).profile_results

\* the matches of search_profiles_node on each text alone, one after another
ResolvedAlone(store, texts, embeddings) ==
    Flatten([i \in 1..Len(texts) |->
               search_profiles_node(
                   [profile_attributes |-> <<AttributesOf(texts)[i]>>],
                   [embed_raises |-> FALSE, answers |-> <<store[embeddings[i]]>>],
                   similarity_threshold).profile_results])

\* what the two ways yield on the same texts from the same cache
BothWays(store, c, texts, current_time) ==
    LET together == encode_batch(c, texts, current_time)
        alone == EncodeEach(c, texts, 1, current_time, <<>>)
    IN [texts |-> texts,
        embeddings |-> together.embeddings,
        cached |-> { i \in 1..Len(texts) :
                       EmbeddingCache_get(c, texts[i], current_time).value.hit },
        model_calls |-> together.model_calls,
        batched |-> ResolvedTogether(store, texts, together.embeddings),
        singly |-> ResolvedAlone(store, texts, alone.embeddings)]

BatchInit ==
    /\ pc = "batch"
    /\ state = NoneValue
    /\ returned = NoneValue
    /\ trace = <<>>
    /\ calls = <<>>
    /\ produced = NoneValue
    /\ pending = [cache |-> EmptyCache, now |-> 0]
    /\ legacy \in BatchStores

\* the stage embeds the list in one encode call
ResolveBatched ==
    /\ \E texts \in BatchLists :
         pending' = [pending EXCEPT
                       !.cache = encode_batch(pending.cache, texts, pending.now).cache]
    /\ pc' = "batched"
    /\ UNCHANGED <<state, returned, trace, calls, produced, legacy>>

\* the texts are embedded one encode call each
ResolveSingly ==
    /\ \E texts \in BatchLists :
         pending' = [pending EXCEPT
                       !.cache = EncodeEach(pending.cache, texts, 1, pending.now, <<>>).cache]
    /\ pc' = "singly"
    /\ UNCHANGED <<state, returned, trace, calls, produced, legacy>>

BatchNext == Tick \/ ResolveBatched \/ ResolveSingly

BatchSpec == BatchInit /\ [][BatchNext]_vars

----------------------------------------------------------------------------
(* One EmbeddingCache used by one caller at a time: any sequence of get,   *)
(* put and clear, the clock advancing in between.  pending holds the cache *)
(* and the clock, returned the last operation with the cache it found, and *)
(* produced a history kept beside the cache: for every text the last put  *)
(* and the time of the last put or successful get.                         *)

CacheTexts == {"age", "gender", "city"}

CacheEmbeddings == { DenseVec(t) : t \in BatchTexts }

NeverStored == [embedding |-> "", time |-> 0 - 1]

NoHistory ==
    [stored |-> [t \in CacheTexts |-> NeverStored],
     accessed |-> [t \in CacheTexts |-> 0 - 1]]

CacheInit ==
    /\ pc = "cache"
    /\ state = NoneValue
    /\ returned = NoneValue
    /\ trace = <<>>
    /\ calls = <<>>
    /\ produced = NoHistory
    /\ pending = [cache |-> EmptyCache, now |-> 0]
    /\ legacy = NoneValue

\* cache.get(text)
CacheGet ==
    /\ pc \in {"cache", "got", "stored", "cleared"}
    /\ \E text \in CacheTexts :
         LET got == EmbeddingCache_get(pending.cache, text, pending.now)
         IN /\ pending' = [pending EXCEPT !.cache = got.cache]
            /\ returned' = [op |-> "get", text |-> text, at |-> pending.now,
                            value |-> got.value, before |-> pending.cache]
            /\ produced' = IF got.value.hit
                           THEN [produced EXCEPT !.accessed[text] = pending.now]
                           ELSE produced
    /\ pc' = "got"
    /\ UNCHANGED <<state, trace, calls, legacy>>

\* cache.put(text, embedding)
CachePut ==
    /\ pc \in {"cache", "got", "stored", "cleared"}
    /\ \E text \in CacheTexts, embedding \in CacheEmbeddings :
         /\ pending' = [pending EXCEPT
                          !.cache = EmbeddingCache_put(@, text, embedding, pending.now)]
         /\ returned' = [op |-> "put", text |-> text, at |-> pending.now,
                         value |-> [hit |-> TRUE, embedding |-> embedding],
                         before |-> pending.cache]
         /\ produced' = [produced EXCEPT
                           !.stored[text] = [embedding |-> embedding, time |-> pending.now],
                           !.accessed[text] = pending.now]
    /\ pc' = "stored"
    /\ UNCHANGED <<state, trace, calls, legacy>>

\* cache.clear()
CacheClear ==
    /\ pc \in {"got", "stored"}
    /\ pending' = [pending EXCEPT !.cache = EmbeddingCache_clear(@)]
    /\ returned' = [op |-> "clear", text |-> "", at |-> pending.now, value |-> Miss,
                    before |-> pending.cache]
    /\ pc' = "cleared"
    /\ UNCHANGED <<state, trace, calls, produced, legacy>>

CacheNext == Tick \/ CacheGet \/ CachePut \/ CacheClear

CacheSpec == CacheInit /\ [][CacheNext]_vars

----------------------------------------------------------------------------
(* One EmbeddingCache used by two queries at once.  The class takes no     *)
(* lock, so the statements of get, put and _evict_oldest of the two        *)
(* callers interleave; every step below is one statement that reads or     *)
(* writes one of the two maps.  pending holds the shared maps and the      *)
(* clock, state the position and the local variables of each caller.  A    *)
(* del or a subscript on a key that is gone raises KeyError, min() of an   *)
(* empty map ValueError: the caller's operation ends at "raised".          *)

Threads == {1, 2}

\* the cache operations each query makes
OpsPerQuery == 1

\* caches a sequence of puts by one caller leaves behind
RaceStarts ==
    { EmptyCache,
      EmbeddingCache_put(EmptyCache, "age", DenseVec("age"), 0),
      EmbeddingCache_put(EmbeddingCache_put(EmptyCache, "age", DenseVec("age"), 0),
                         "gender", DenseVec("gender"), 0) }

RaceInit ==
    /\ pc = "racing"
    /\ state = [th \in Threads |->
                  [at |-> "idle", key |-> "", embedding |-> "", current_time |-> 0,
                   oldest_key |-> "", left |-> OpsPerQuery]]
    /\ returned = NoneValue
    /\ trace = <<>>
    /\ calls = <<>>
    /\ produced = NoneValue
    /\ \E c \in RaceStarts : pending = [cache |-> c, now |-> 0]
    /\ legacy = NoneValue

RaceFrame == UNCHANGED <<pc, returned, trace, calls, produced, legacy>>

\* get(text): key = self._get_key(text); current_time = time.time()
BeginGet(th) ==
    /\ state[th].at = "idle"
    /\ state[th].left > 0
    /\ \E text \in CacheTexts :
         state' = [state EXCEPT ![th] =
                     [@ EXCEPT !.at = "get_has", !.key = _get_key(text),
                               !.current_time = pending.now, !.left = @ - 1]]
    /\ UNCHANGED pending
    /\ RaceFrame

\* if key in self.cache
GetHas(th) ==
    /\ state[th].at = "get_has"
    /\ state' = [state EXCEPT ![th].at =
                   IF DictHas(pending.cache.cache, state[th].key)
                   THEN "get_read" ELSE "idle"]
    /\ UNCHANGED pending
    /\ RaceFrame

\* embedding, timestamp = self.cache[key]; if current_time - timestamp > self.ttl
GetRead(th) ==
    /\ state[th].at = "get_read"
    /\ state' = [state EXCEPT ![th].at =
                   IF ~DictHas(pending.cache.cache, state[th].key) THEN "raised"
                   ELSE IF state[th].current_time
                             - DictGet(pending.cache.cache, state[th].key).timestamp > ttl
                        THEN "get_del_cache"
                        ELSE "get_touch"]
    /\ UNCHANGED pending
    /\ RaceFrame

\* del self.cache[key]
GetDelCache(th) ==
    /\ state[th].at = "get_del_cache"
    /\ IF DictHas(pending.cache.cache, state[th].key)
       THEN /\ pending' = [pending EXCEPT !.cache.cache = DictDel(@, state[th].key)]
            /\ state' = [state EXCEPT ![th].at = "get_has_access"]
       ELSE /\ state' = [state EXCEPT ![th].at = "raised"]
            /\ UNCHANGED pending
    /\ RaceFrame

\* if key in self.access_times
GetHasAccess(th) ==
    /\ state[th].at = "get_has_access"
    /\ state' = [state EXCEPT ![th].at =
                   IF DictHas(pending.cache.access_times, state[th].key)
                   THEN "get_del_access" ELSE "idle"]
    /\ UNCHANGED pending
    /\ RaceFrame

\* del self.access_times[key]; return None
GetDelAccess(th) ==
    /\ state[th].at = "get_del_access"
    /\ IF DictHas(pending.cache.access_times, state[th].key)
       THEN /\ pending' = [pending EXCEPT !.cache.access_times = DictDel(@, state[th].key)]
            /\ state' = [state EXCEPT ![th].at = "idle"]
       ELSE /\ state' = [state EXCEPT ![th].at = "raised"]
            /\ UNCHANGED pending
    /\ RaceFrame

\* self.access_times[key] = current_time; return embedding
GetTouch(th) ==
    /\ state[th].at = "get_touch"
    /\ pending' = [pending EXCEPT !.cache.access_times =
                     DictSet(@, [key |-> state[th].key, time |-> state[th].current_time])]
    /\ state' = [state EXCEPT ![th].at = "idle"]
    /\ RaceFrame

\* put(text, embedding): key = self._get_key(text); current_time = time.time()
BeginPut(th) ==
    /\ state[th].at = "idle"
    /\ state[th].left > 0
    /\ \E text \in CacheTexts :
         state' = [state EXCEPT ![th] =
                     [@ EXCEPT !.at = "put_full", !.key = _get_key(text),
                               !.embedding = DenseVec(text),
                               !.current_time = pending.now, !.left = @ - 1]]
    /\ UNCHANGED pending
    /\ RaceFrame

\* if len(self.cache) >= self.max_size
PutFull(th) ==
    /\ state[th].at = "put_full"
    /\ state' = [state EXCEPT ![th].at =
                   IF Len(pending.cache.cache) >= max_size
                   THEN "evict_empty" ELSE "put_cache"]
    /\ UNCHANGED pending
    /\ RaceFrame

\* _evict_oldest: if not self.access_times: return
EvictEmpty(th) ==
    /\ state[th].at = "evict_empty"
    /\ state' = [state EXCEPT ![th].at =
                   IF pending.cache.access_times = <<>> THEN "put_cache" ELSE "evict_min"]
    /\ UNCHANGED pending
    /\ RaceFrame

\* oldest_key = min(self.access_times.keys(), key=...)
EvictMin(th) ==
    /\ state[th].at = "evict_min"
    /\ state' = [state EXCEPT ![th] =
                   IF pending.cache.access_times = <<>>
                   THEN [@ EXCEPT !.at = "raised"]
                   ELSE [@ EXCEPT !.at = "evict_del_cache",
                                  !.oldest_key = OldestKey(pending.cache.access_times)]]
    /\ UNCHANGED pending
    /\ RaceFrame

\* del self.cache[oldest_key]
EvictDelCache(th) ==
    /\ state[th].at = "evict_del_cache"
    /\ IF DictHas(pending.cache.cache, state[th].oldest_key)
       THEN /\ pending' = [pending EXCEPT !.cache.cache = DictDel(@, state[th].oldest_key)]
            /\ state' = [state EXCEPT ![th].at = "evict_del_access"]
       ELSE /\ state' = [state EXCEPT ![th].at = "raised"]
            /\ UNCHANGED pending
    /\ RaceFrame

\* del self.access_times[oldest_key]
EvictDelAccess(th) ==
    /\ state[th].at = "evict_del_access"
    /\ IF DictHas(pending.cache.access_times, state[th].oldest_key)
       THEN /\ pending' = [pending EXCEPT
                             !.cache.access_times = DictDel(@, state[th].oldest_key)]
            /\ state' = [state EXCEPT ![th].at = "put_cache"]
       ELSE /\ state' = [state EXCEPT ![th].at = "raised"]
            /\ UNCHANGED pending
    /\ RaceFrame

\* self.cache[key] = (embedding, current_time)
PutCache(th) ==
    /\ state[th].at = "put_cache"
    /\ pending' = [pending EXCEPT !.cache.cache =
                     DictSet(@, [key |-> state[th].key, embedding |-> state[th].embedding,
                                 timestamp |-> state[th].current_time])]
    /\ state' = [state EXCEPT ![th].at = "put_access"]
    /\ RaceFrame

\* self.access_times[key] = current_time
PutAccess(th) ==
    /\ state[th].at = "put_access"
    /\ pending' = [pending EXCEPT !.cache.access_times =
                     DictSet(@, [key |-> state[th].key, time |-> state[th].current_time])]
    /\ state' = [state EXCEPT ![th].at = "idle"]
    /\ RaceFrame

RaceNext ==
    \/ Tick
    \/ \E th \in Threads :
         \/ BeginGet(th) \/ GetHas(th) \/ GetRead(th) \/ GetDelCache(th)
         \/ GetHasAccess(th) \/ GetDelAccess(th) \/ GetTouch(th)
         \/ BeginPut(th) \/ PutFull(th) \/ EvictEmpty(th) \/ EvictMin(th)
         \/ EvictDelCache(th) \/ EvictDelAccess(th) \/ PutCache(th) \/ PutAccess(th)

RaceSpec == RaceInit /\ [][RaceNext]_vars

----------------------------------------------------------------------------
(* The two normalizers on one extraction payload: the parsing inside       *)
(* intent_classification_node and parse_structured_extraction of the query *)
(* processor.  legacy holds the structured_query, returned what the        *)
(* normalizer yields.                                                      *)

NormNames == {"age", "gender", " age ", "", "  "}

NormValues == {"25-35", " male ", ""}

\* str.strip on the strings of the payloads
Strip(text) ==
    CASE text = " age " -> "age"
      [] text = " male " -> "male"
      [] text = " purchase " -> "purchase"
      [] text = " amount " -> "amount"
      [] text = " high " -> "high"
      [] text = "  " -> ""
      [] OTHER -> text

\* person_attributes as a list of up to three names
NormListPayloads ==
    { List(l) : l \in UNION { [1..n -> NormNames] : n \in 0..3 } }

\* person_attributes as a mapping of up to two names
NormDictPayloads ==
    { Dict(<< <<k, v>> >>) : k \in NormNames, v \in NormValues }
    \cup { Dict(<< <<k[1], v>>, <<k[2], "25-35">> >>) :
             k \in { x \in NormNames \X NormNames : x[1] # x[2] }, v \in NormValues }

NormDescriptions == {"purchase", " purchase ", "", "  "}

\* events whose attributes are a list of names
NormListEvents ==
    { List(<<[event_description |-> d, attributes |-> List(a)]>>) :
        d \in NormDescriptions,
        a \in { <<"amount">>, <<"amount", "", "  ">>, <<" amount ">>, <<"", "  ">> } }

\* events whose attributes are a mapping
NormDictEvents ==
    { List(<<[event_description |-> d, attributes |-> Dict(<< <<"amount", v>> >>)]>>) :
        d \in NormDescriptions, v \in {" high ", ""} }

\* no event, an event without attributes, a field that is no list
NormBareEvents == { List(<<>>), List(<<[event_type |-> "purchase"]>>), Other }

\* event entries with list-shaped attributes: two well-formed ones under
\* either field name, one with a blank and one without a description, one
\* whose description is no string, one that is no dict, one without
\* attributes and one whose attributes are neither a mapping nor a list
NormEntries ==
    { [event_description |-> "purchase", attributes |-> List(<<"amount", "time">>)],
      [event_type |-> "login", attributes |-> List(<<"device">>)],
      [event_description |-> "  ", attributes |-> List(<<"amount">>)],
      [attributes |-> List(<<"amount">>)],
      [event_description |-> Five, attributes |-> List(<<"amount">>)],
      NotADict,
      [event_description |-> "browse"],
      [event_description |-> "browse", attributes |-> Other] }

\* event lists of two entries
NormSeveralEvents == { List(<<e[1], e[2]>>) : e \in NormEntries \X NormEntries }

\* event entries with mapping-shaped attributes, one with a key that is no
\* string
NormDictEntries ==
    { [event_type |-> "purchase",
       attributes |-> Dict(<< <<"amount", "high">>, <<"time", "recent">> >>)],
      [event_description |-> "login", attributes |-> Dict(<< <<Five, "x">> >>)],
      [event_description |-> "browse", attributes |-> Dict(<<>>)],
      [event_type |-> "", event_description |-> "", attributes |-> Dict(<< <<"amount", "high">> >>)] }

NormSeveralDictEvents == { List(<<e[1], e[2]>>) : e \in NormDictEntries \X NormDictEntries }

\* person attributes with an entry that is no string among well-formed ones
NormMalformedList == List(<<"age", Five, "gender">>)

NormMalformedDict == Dict(<< <<"age", "25-35">>, <<Five, "x">>, <<"gender", "male">> >>)

\* event entries with one or both of the description keys
NormFieldEntries ==
    { [event_description |-> "purchase", attributes |-> List(<<"amount">>)],
      [event_type |-> "login", event_description |-> "browse"],
      [event_type |-> "", event_description |-> "browse"] }

\* payloads with the events under one field name, the other field absent or
\* present and empty
NormFieldPayloads ==
    { [events |-> List(<<e>>)] : e \in NormFieldEntries }
    \cup { [behavioral_events |-> List(<<e>>)] : e \in NormFieldEntries }
    \cup { [behavioral_events |-> List(<<e>>), events |-> List(<<>>)] : e \in NormFieldEntries }
    \cup { [behavioral_events |-> List(<<>>), events |-> List(<<e>>)] : e \in NormFieldEntries }

\* llm_extractor.extract raised instead of returning a payload
ExtractRaises == [py_raises |-> TRUE]

\* the person_attributes branch of parse_structured_extraction
LegacyPersonAttributes(sq) ==
    IF "person_attributes" \notin DOMAIN sq THEN <<>>
    ELSE LET data == sq["person_attributes"] IN
         IF data.kind = "dict"
         THEN SeqMap(LAMBDA item :
                        [attribute_name |-> Strip(item[1]),
                         query_text |-> FormatKV(Strip(item[1]), Strip(item[2]))],
                     SeqFilter(LAMBDA item : item[1] # "" /\ Strip(item[2]) # "",
                               data.items))
         ELSE IF data.kind = "list"
         THEN SeqMap(LAMBDA attr : [attribute_name |-> Strip(attr), query_text |-> Strip(attr)],
                     SeqFilter(LAMBDA attr : attr # "" /\ IsStr(attr) /\ Strip(attr) # "",
                               data.items))
         ELSE <<>>

\* the attributes of one event entry in parse_structured_extraction
LegacyEventAttributes(event_data) ==
    LET data == Get(event_data, "attributes", List(<<>>)) IN
    IF data.kind = "dict"
    THEN SeqMap(LAMBDA item : FormatKV(Strip(item[1]), Strip(item[2])),
                SeqFilter(LAMBDA item : item[1] # "" /\ Strip(item[2]) # "", data.items))
    ELSE IF data.kind = "list"
    THEN SeqMap(LAMBDA attr : Strip(attr),
                SeqFilter(LAMBDA attr : attr # "" /\ IsStr(attr) /\ Strip(attr) # "",
                          data.items))
    ELSE <<>>

\* the events branch of parse_structured_extraction
LegacyEventInfos(sq) ==
    LET events_key == IF "behavioral_events" \in DOMAIN sq THEN "behavioral_events"
                      ELSE "events"
    IN IF events_key \notin DOMAIN sq \/ sq[events_key].kind # "list" THEN <<>>
       ELSE SeqMap(LAMBDA event_data :
                      [event_description |-> Strip(EventDescriptionOf(event_data)),
                       event_attributes |-> LegacyEventAttributes(event_data)],
                   SeqFilter(LAMBDA event_data :
                                /\ IsDict(event_data)
                                /\ Strip(EventDescriptionOf(event_data)) # "",
                             sq[events_key].items))

\* key.strip() of a key that is no string, in a mapping entry that is kept
StripOfKeyRaises(data) ==
    /\ data.kind = "dict"
    /\ \E i \in 1..Len(data.items) :
         /\ data.items[i][1] # ""
         /\ Strip(Str(data.items[i][2])) # ""
         /\ ~IsStr(data.items[i][1])

\* event_desc.strip() of a description that is no string, or key.strip() in
\* the attributes of an event that has a description
EventEntryRaises(event_data) ==
    /\ IsDict(event_data)
    /\ EventDescriptionOf(event_data) # ""
    /\ \/ ~IsStr(EventDescriptionOf(event_data))
       \/ /\ Strip(EventDescriptionOf(event_data)) # ""
          /\ StripOfKeyRaises(Get(event_data, "attributes", List(<<>>)))

\* an exception anywhere inside the try block of parse_structured_extraction
LegacyParseRaises(sq) ==
    \/ /\ "person_attributes" \in DOMAIN sq
       /\ StripOfKeyRaises(sq["person_attributes"])
    \/ LET events_key == IF "behavioral_events" \in DOMAIN sq THEN "behavioral_events"
                          ELSE "events"
       IN /\ events_key \in DOMAIN sq
          /\ sq[events_key].kind = "list"
          /\ \E i \in 1..Len(sq[events_key].items) :
               EventEntryRaises(sq[events_key].items[i])

\* the except clause returns two empty lists whatever was parsed before
parse_structured_extraction(sq) ==
    IF ~DictTruthy(sq) \/ LegacyParseRaises(sq)
    THEN [profile_attributes |-> <<>>, events |-> <<>>]
    ELSE [profile_attributes |-> LegacyPersonAttributes(sq),
          events |-> LegacyEventInfos(sq)]

NormalizeInit ==
    /\ pc = "normalize"
    /\ state = NoneValue
    /\ returned = NoneValue
    /\ trace = <<>>
    /\ calls = <<>>
    /\ produced = NoneValue
    /\ pending = NoneValue
    /\ \/ \E pa \in NormListPayloads \cup {Other} : legacy = [person_attributes |-> pa]
       \/ \E pa \in NormDictPayloads : legacy = [person_attributes |-> pa]
       \/ \E ev \in NormListEvents : legacy = [behavioral_events |-> ev]
       \/ \E ev \in NormDictEvents : legacy = [behavioral_events |-> ev]
       \/ \E ev \in NormBareEvents : legacy = [behavioral_events |-> ev]
       \/ \E pa \in { List(<<"age", "", "  ">>), List(<<"age", "gender">>), Other },
             ev \in NormListEvents \cup NormBareEvents :
               legacy = [person_attributes |-> pa, events |-> ev]
       \/ \E ev \in NormDictEvents \cup NormBareEvents :
            legacy = [person_attributes |-> Dict(<< <<"age", "25-35">> >>), events |-> ev]
       \/ \E ev \in NormSeveralEvents : legacy = [events |-> ev]
       \/ \E ev \in NormSeveralDictEvents : legacy = [behavioral_events |-> ev]
       \/ \E ev \in NormSeveralEvents :
            legacy = [person_attributes |-> NormMalformedList, behavioral_events |-> ev]
       \/ \E ev \in NormSeveralDictEvents \cup NormBareEvents :
            legacy = [person_attributes |-> NormMalformedDict, events |-> ev]
       \/ legacy \in {NoneValue, NotADict, ExtractRaises}
       \/ legacy \in NormFieldPayloads

\* intent_classification_node on an extraction that carries the payload
NormalizeNode ==
    /\ pc = "normalize"
    /\ returned' = intent_classification_node(
                       FreshState("user age"),
                       IF legacy = ExtractRaises THEN [raises |-> TRUE]
                       ELSE [raises |-> FALSE, structured_query |-> legacy])
    /\ pc' = "node"
    /\ UNCHANGED <<state, trace, calls, produced, pending, legacy>>

\* parse_structured_extraction on the same payload; classify_intent leaves
\* its two lists empty when the extraction raised
NormalizeParser ==
    /\ pc = "normalize"
    /\ returned' = IF legacy = ExtractRaises
                   THEN [profile_attributes |-> <<>>, events |-> <<>>]
                   ELSE parse_structured_extraction(legacy)
    /\ pc' = "parser"
    /\ UNCHANGED <<state, trace, calls, produced, pending, legacy>>

NormalizeNext == NormalizeNode \/ NormalizeParser

NormalizeSpec == NormalizeInit /\ [][NormalizeNext]_vars

----------------------------------------------------------------------------
(* Properties *)

Ran(node) == \E i \in 1..Len(trace) : trace[i] = node

TimesRun(node) == Cardinality({ i \in 1..Len(trace) : trace[i] = node })

\* the aggregator took its except branch
AggregationFailed ==
    state.final_result # NoneValue /\ "error" \in DOMAIN state.final_result

\* what the Event Resolver handed on: nothing after a failure
EventStageOutput ==
    IF produced.events.raised THEN <<>> ELSE produced.events.obtained

AttributeSearches ==
    SeqFilter(LAMBDA c : c.stage = "event_attributes" /\ c.op = "search", calls)

AttributeCalls == SeqFilter(LAMBDA c : c.stage = "event_attributes", calls)

\* C1: Every event-attribute match comes from a search filtered to the
\* catalog identifier of exactly one resolved event, and the parent event
\* recorded on the match is that event: in the pipeline every match names a
\* resolved event as parent, was searched under that event and is stored under
\* it, and in the legacy agent every attribute search names exactly one event.
C1_ScopedToOneEvent ==
    /\ \A i \in 1..Len(state.event_attr_results) :
         LET match == state.event_attr_results[i] IN
         /\ \E e \in Range(state.event_results) : e.matched_field.idname = match.source
         /\ match.matched_field.source = match.source
         /\ \E c \in Range(AttributeSearches) :
              c.text = match.original_query /\ c.source = match.source
    /\ (legacy # NoneValue) =>
         \A i \in 1..Len(legacy.searches) :
            /\ Len(legacy.searches[i].event_idnames) = 1
            /\ \A h \in Range(legacy.searches[i].hits) :
                 h.entry.source = legacy.searches[i].event_idnames[1]

\* C2: The Event-Attribute Resolver starts only after the Event Resolver has
\* finished, sees that stage's final match list and nothing partial, and the
\* Aggregator starts only after the Event-Attribute Resolver has finished.
C2_DependentStageOrdering ==
    /\ (pc = "search_event_attributes") =>
         /\ produced.events.ran
         /\ pending = NoneValue
         /\ state.event_results = EventStageOutput
         /\ ~produced.event_attributes.ran
    /\ produced.event_attributes.ran =>
         /\ produced.events.ran
         /\ state.event_results = EventStageOutput
    /\ (produced.events.ran /\ (pc \in {"aggregate_results", "END"} \/ Ran("aggregate_results")))
         => produced.event_attributes.ran
    /\ \A i, j \in 1..Len(trace) :
         /\ (trace[i] = "search_event_attributes"
             /\ trace[j] \in {"search_events", "search_profiles_and_events"}) => j < i
         /\ (trace[i] = "aggregate_results" /\ trace[j] = "search_event_attributes") => j < i

C2_Witness ==
    /\ pc = "END"
    /\ produced.event_attributes.ran
    /\ produced.events.obtained # <<>>
    /\ state.event_attr_results # <<>>

\* C3: Routing depends only on which canonical lists are non-empty: both ->
\* the two resolvers, then the Event-Attribute Resolver, then the Aggregator;
\* person attributes only -> the Attribute Resolver, then the Aggregator;
\* events only -> the Event Resolver, the Event-Attribute Resolver, then the
\* Aggregator; neither -> the Aggregator is still reached and answers with
\* empty lists, confidence 0.0 and the nothing-found summary.
C3_RoutingByPresence ==
    (pc = "END") =>
      LET has_profiles == state.profile_attributes # <<>>
          has_events == state.events # <<>>
          final == state.final_result
      IN /\ (has_profiles /\ has_events) =>
              /\ trace = <<"intent_classification", "search_profiles_and_events",
                           "search_event_attributes", "aggregate_results">>
              /\ produced.profiles.ran /\ produced.events.ran
              /\ produced.event_attributes.ran
         /\ (has_profiles /\ ~has_events) =>
              /\ trace = <<"intent_classification", "search_profiles",
                           "aggregate_results">>
              /\ produced.profiles.ran
              /\ ~produced.events.ran /\ ~produced.event_attributes.ran
         /\ (~has_profiles /\ has_events) =>
              /\ trace = <<"intent_classification", "search_events",
                           "search_event_attributes", "aggregate_results">>
              /\ ~produced.profiles.ran
              /\ produced.events.ran /\ produced.event_attributes.ran
         /\ (~has_profiles /\ ~has_events) =>
              /\ Ran("aggregate_results")
              /\ final # NoneValue
              /\ ~AggregationFailed =>
                   /\ final.profile_attributes = <<>>
                   /\ final.events = <<>>
                   /\ final.event_attributes = <<>>
                   /\ final.confidence_score = 0
                   /\ final.summary = NothingFound

C3_Witness ==
    /\ pc = "END"
    /\ state.profile_attributes = <<>> /\ state.events = <<>>
    /\ ~AggregationFailed
    /\ state.final_result.summary = NothingFound

\* C4: When the Event Resolver yields zero matches (no events extracted,
\* every score below the threshold, or the stage failed), the
\* Event-Attribute Resolver makes no embedding or search call, yields an
\* empty list and records no error, and the final event_attributes is empty.
C4_NoEventsNoAttributeWork ==
    (pc \in {"aggregate_results", "END"} /\ state.event_results = <<>>) =>
      /\ AttributeCalls = <<>>
      /\ state.event_attr_results = <<>>
      /\ ~produced.event_attributes.raised
      /\ state.error # Err("Event attribute search failed")
      /\ (pc = "END") => state.final_result.event_attributes = <<>>

\* the stage ran on an event list that a below-threshold search left empty,
\* although the extraction proposed an attribute for the event
C4_Witness ==
    /\ pc = "END"
    /\ produced.event_attributes.ran
    /\ ~produced.events.raised
    /\ state.events # <<>>
    /\ \E e \in Range(state.events) : e.event_attributes # <<>>
    /\ \E c \in Range(calls) : c.stage = "events" /\ c.op = "search"
    /\ state.event_results = <<>>
    /\ state.final_result.event_attributes = <<>>

ResultFields ==
    {"profile_attributes", "events", "event_attributes", "has_ambiguity",
     "ambiguous_options", "confidence_score", "summary", "execution_time"}

\* C5: The top-level resolve call never propagates an exception and always
\* returns a result carrying profile_attributes, events, event_attributes,
\* has_ambiguity, ambiguous_options, confidence_score, summary and
\* execution_time, for run_agent and for process_query alike.
C5_AlwaysStructuredResult ==
    /\ (pc = "returned") =>
         /\ returned # NoneValue
         /\ returned.final_result # NoneValue
         /\ ResultFields \subseteq DOMAIN returned.final_result
    /\ (pc = "legacy_returned") =>
         /\ ~legacy.raised
         /\ ResultFields \subseteq DOMAIN legacy.result


\* how far along the workflow a position is
Rank ==
    CASE pc = "intent_classification" -> 0
      [] pc \in {"search_profiles", "search_events"} -> 1
      [] pc = "search_profiles_and_events" -> IF pending = NoneValue THEN 1 ELSE 2
      [] pc = "search_event_attributes" -> 3
      [] pc = "aggregate_results" -> 4
      [] pc = "END" -> 5
      [] pc = "returned" -> 6

\* some node can run; AggregateResults and RunAgentReturn take no input and
\* have no guard but the position
StepPossible ==
    \/ ENABLED IntentClassification
    \/ ENABLED SearchProfiles
    \/ ENABLED SearchEvents
    \/ ENABLED WrapperSearchProfiles
    \/ ENABLED WrapperSearchEvents
    \/ ENABLED SearchEventAttributes
    \/ pc \in {"aggregate_results", "END"}

\* C6: Every execution of the workflow eventually runs the Aggregator exactly
\* once and then ends with a non-null final result: until the result is
\* returned a next step is always possible, every step moves the workflow
\* strictly forward, the Aggregator is never run twice, and a result is handed
\* to the caller only after the Aggregator ran, complete and non-null even
\* when every upstream stage returned nothing.
C6_AggregatorAlwaysRuns ==
    /\ [](pc = "returned" \/ StepPossible)
    /\ [][Rank' > Rank]_vars
    /\ [](TimesRun("aggregate_results") <= 1)
    /\ []((pc \in {"END", "returned"}) => TimesRun("aggregate_results") = 1)
    /\ []((returned # NoneValue) =>
            /\ pc = "returned"
            /\ Ran("aggregate_results")
            /\ returned.final_result # NoneValue
            /\ ResultFields \subseteq DOMAIN returned.final_result)

C6_Witness ==
    /\ pc = "returned"
    /\ TimesRun("aggregate_results") = 1
    /\ state.profile_results = <<>>
    /\ state.event_results = <<>>
    /\ state.event_attr_results = <<>>
    /\ returned.final_result.total_results = 0
    /\ "error" \notin DOMAIN returned.final_result

SomeStageRaised ==
    produced.profiles.raised \/ produced.events.raised \/ produced.event_attributes.raised

\* C7: When a collaborator raises inside one resolver stage, that stage
\* yields nothing, the remaining stages and the Aggregator still run, and the
\* matches of the stages that did not fail reach the final result unchanged.
C7_StageFailureContained ==
    /\ produced.profiles.raised => pc # "search_profiles"
    /\ produced.events.raised => pc \notin {"search_events", "search_profiles_and_events"}
    /\ (pc = "END" /\ SomeStageRaised) =>
         /\ Ran("aggregate_results")
         /\ produced.events.ran => produced.event_attributes.ran
         /\ Ran("search_profiles_and_events") => (produced.profiles.ran /\ produced.events.ran)
         /\ ~AggregationFailed =>
              LET final == state.final_result IN
              /\ final.profile_attributes =
                   IF produced.profiles.raised THEN <<>>
                   ELSE _process_profile_results(produced.profiles.obtained,
                                                 similarity_threshold)
              /\ final.events =
                   IF produced.events.raised THEN <<>>
                   ELSE _process_event_results(produced.events.obtained,
                                               similarity_threshold)
              /\ final.event_attributes =
                   IF produced.event_attributes.raised THEN <<>>
                   ELSE _process_event_attr_results(produced.event_attributes.obtained,
                                                    similarity_threshold)

\* the Event Resolver failed on the mixed route and the profile match is kept
C7_Witness ==
    /\ pc = "END"
    /\ Ran("search_profiles_and_events")
    /\ produced.events.raised
    /\ ~produced.profiles.raised
    /\ produced.profiles.obtained # <<>>
    /\ state.final_result.events = <<>>
    /\ Len(state.final_result.profile_attributes) = Len(produced.profiles.obtained)

\* C8: Errors are contained per query fragment: when the call for one
\* fragment fails inside a stage, the matches the stage obtained for its
\* other fragments are still in the final result.
C8_FragmentFailureContained ==
    (pc = "END" /\ ~AggregationFailed) =>
      LET final == state.final_result IN
      /\ final.profile_attributes =
           _process_profile_results(produced.profiles.obtained, similarity_threshold)
      /\ final.events =
           _process_event_results(produced.events.obtained, similarity_threshold)
      /\ final.event_attributes =
           _process_event_attr_results(produced.event_attributes.obtained,
                                       similarity_threshold)

\* C9: When the Aggregator fails while merging, the caller still receives a
\* well-formed result with the three lists empty, confidence 0.0 and a
\* diagnostic in the error field; after a successful aggregation the error
\* field is absent.
C9_AggregationFailureResult ==
    (pc = "returned" /\ Ran("aggregate_results")) =>
      LET final == returned.final_result IN
      /\ ResultFields \subseteq DOMAIN final
      /\ AggregatorRaises(state) =>
           /\ final.profile_attributes = <<>>
           /\ final.events = <<>>
           /\ final.event_attributes = <<>>
           /\ final.confidence_score = 0
           /\ "error" \in DOMAIN final
           /\ final.error # ""
      /\ ~AggregatorRaises(state) => "error" \notin DOMAIN final

C9_Witness ==
    /\ pc = "returned"
    /\ Ran("aggregate_results")
    /\ AggregatorRaises(state)
    /\ returned.final_result.error = "Aggregation failed"
    /\ returned.final_result.execution_time = "elapsed"

\* the scores at or above the threshold among the answer to one query
AcceptableScores(answer) ==
    { answer.hits[i].score : i \in { j \in 1..Len(answer.hits) :
                                       answer.hits[j].score >= similarity_threshold } }

\* the queries of the stage under test, their texts, and the stage's matches
SelectedQueryTexts ==
    IF pc = "selected_profiles"
    THEN SeqMap(LAMBDA a : a.query_text, state.profile_attributes)
    ELSE SeqMap(LAMBDA e : e.event_description, state.events)

SelectedMatches ==
    IF pc = "selected_profiles" THEN returned.profile_results ELSE returned.event_results

\* C10: Per canonical query a stage emits at most one match: nothing (no
\* placeholder, no error) when no candidate reaches the threshold, otherwise
\* exactly one whose score is the largest score at or above the threshold,
\* whatever order the search returned the candidates in; a stage never emits
\* more matches than it has queries.
C10_OneBestMatchPerQuery ==
    (pc \in {"selected_profiles", "selected_events"}) =>
      LET n == Len(SelectedQueryTexts)
          matched == { i \in 1..n : AcceptableScores(pending[i]) # {} }
          Nth(k) == CHOOSE i \in matched : Cardinality({ j \in matched : j < i }) = k - 1
          Best(i) == CHOOSE m \in AcceptableScores(pending[i]) :
                        \A x \in AcceptableScores(pending[i]) : x <= m
      IN /\ "error" \notin DOMAIN returned
         /\ Len(SelectedMatches) = Cardinality(matched)
         /\ Len(SelectedMatches) <= n
         /\ \A k \in 1..Len(SelectedMatches) :
              LET match == SelectedMatches[k] IN
              /\ match.original_query = SelectedQueryTexts[Nth(k)]
              /\ match.matched_field.score = Best(Nth(k))
              /\ \E h \in Range(pending[Nth(k)].hits) :
                   h.entry.id = match.matched_field.id /\ h.score = match.matched_field.score

\* two queries, the first without an acceptable candidate, the second with
\* its best candidate returned after a weaker acceptable one
C10_Witness ==
    /\ pc = "selected_profiles"
    /\ Len(state.profile_attributes) = 2
    /\ AcceptableScores(pending[1]) = {}
    /\ Len(pending[1].hits) > 0
    /\ Len(pending[2].hits) = 2
    /\ pending[2].hits[1].score = 50
    /\ pending[2].hits[2].score = 90
    /\ Len(returned.profile_results) = 1
    /\ returned.profile_results[1].matched_field.score = 90

\* the matches of the stage whose flag is examined
FlaggedMatches ==
    IF pc = "ambiguity_profiles" THEN returned.profile_results
    ELSE returned.event_attr_results

\* C11: An accepted person-attribute or event-attribute match is flagged
\* ambiguous exactly when the same search returned another candidate at or
\* above the similarity threshold whose score is less than the margin (0.05)
\* below the best one: 0.80 with 0.76 is flagged, 0.80 with 0.70 and 0.80 with
\* 0.75 are not, and a match with one surviving candidate is never flagged.
C11_AmbiguityFlag ==
    (pc \in {"ambiguity_profiles", "ambiguity_event_attributes"}) =>
      LET n == Len(pending)
          matched == { i \in 1..n : AcceptableScores(pending[i]) # {} }
          Nth(k) == CHOOSE i \in matched : Cardinality({ j \in matched : j < i }) = k - 1
          Valid(i) == { j \in 1..Len(pending[i].hits) :
                          pending[i].hits[j].score >= similarity_threshold }
          CloseSecond(i) ==
              \E a, b \in Valid(i) :
                 /\ a # b
                 /\ \A c \in Valid(i) : pending[i].hits[c].score <= pending[i].hits[a].score
                 /\ pending[i].hits[a].score - pending[i].hits[b].score < 5
      IN /\ Len(FlaggedMatches) = Cardinality(matched)
         /\ \A k \in 1..Len(FlaggedMatches) :
              LET flag == FlaggedMatches[k].matched_field.has_ambiguity
                  surviving == { pending[Nth(k)].hits[j].score : j \in Valid(Nth(k)) }
              IN /\ flag \in BOOLEAN
                 /\ flag <=> CloseSecond(Nth(k))
                 /\ Cardinality(Valid(Nth(k))) = 1 => ~flag
                 /\ (Cardinality(Valid(Nth(k))) = 2 /\ surviving = {80, 76}) => flag
                 /\ (Cardinality(Valid(Nth(k))) = 2 /\ surviving = {80, 70}) => ~flag

\* two attribute queries of one event: the first with candidates 0.76 and
\* 0.80 (flagged), the second with candidates 0.80 and 0.70 (not flagged)
C11_Witness ==
    /\ pc = "ambiguity_event_attributes"
    /\ Len(pending) = 2
    /\ Len(pending[1].hits) = 2
    /\ pending[1].hits[1].score = 76 /\ pending[1].hits[2].score = 80
    /\ Len(pending[2].hits) = 2
    /\ pending[2].hits[1].score = 80 /\ pending[2].hits[2].score = 70
    /\ Len(returned.event_attr_results) = 2
    /\ returned.event_attr_results[1].matched_field.has_ambiguity
    /\ ~returned.event_attr_results[2].matched_field.has_ambiguity

\* the catalog entry an output entry of the Aggregator stands for
OutputId(category, entry) ==
    IF category = "profile"
    THEN (CHOOSE c \in ProfileCatalog : c.idname = entry.idname).id
    ELSE IF category = "event"
    THEN (CHOOSE c \in EventCatalog : c.idname = entry.idname).id
    ELSE (CHOOSE c \in EventAttrCatalog :
            /\ c.idname = entry.idname
            /\ \E e \in EventCatalog : e.idname = c.source /\ e.source_name = entry.event_name).id

\* one output list against the resolver output it was built from
SortedDedupedFiltered(category, input, output) ==
    /\ \A k \in 1..(Len(output) - 1) : output[k].score >= output[k + 1].score
    /\ \A k, l \in 1..Len(output) :
         k # l => OutputId(category, output[k]) # OutputId(category, output[l])
    /\ \A k \in 1..Len(output) :
         /\ output[k].score >= 50
         /\ \E m \in Range(input) :
              /\ m.matched_field.id = OutputId(category, output[k])
              /\ m.matched_field.score = output[k].score
              /\ m.original_query = output[k].original_query
         /\ \A m \in Range(input) :
              m.matched_field.id = OutputId(category, output[k])
                => m.matched_field.score <= output[k].score

\* C12: Each of the three output lists of the Aggregator has its scores in
\* non-increasing order, holds no catalog identifier twice, keeps for a
\* repeated identifier the entry with the highest score, holds only entries
\* at or above the similarity threshold (0.5), and holds no entry that was
\* not in the corresponding input list.
C12_SortedDedupedFiltered ==
    (pc = "aggregated") =>
      /\ "error" \notin DOMAIN state.final_result
      /\ SortedDedupedFiltered("profile", state.profile_results,
                               state.final_result.profile_attributes)
      /\ SortedDedupedFiltered("event", state.event_results, state.final_result.events)
      /\ SortedDedupedFiltered("event_attribute", state.event_attr_results,
                               state.final_result.event_attributes)

\* one catalog entry matched twice, the weaker match first, and an event
\* match below the threshold
C12_Witness ==
    /\ pc = "aggregated"
    /\ Len(state.profile_results) = 2
    /\ state.profile_results[1].matched_field.id = state.profile_results[2].matched_field.id
    /\ state.profile_results[1].matched_field.score = 75
    /\ state.profile_results[2].matched_field.score = 90
    /\ Len(state.final_result.profile_attributes) = 1
    /\ state.final_result.profile_attributes[1].score = 90
    /\ Len(state.event_results) = 1
    /\ state.event_results[1].matched_field.score = 40
    /\ state.final_result.events = <<>>

\* the resolver matches, of any category, for one source query text whose
\* score reaches the ambiguity threshold (0.75)
GroupMembers(q) ==
    { <<"profile", i>> : i \in { j \in 1..Len(state.profile_results) :
          /\ state.profile_results[j].original_query = q
          /\ state.profile_results[j].matched_field.score >= 75 } }
    \cup { <<"event", i>> : i \in { j \in 1..Len(state.event_results) :
          /\ state.event_results[j].original_query = q
          /\ state.event_results[j].matched_field.score >= 75 } }
    \cup { <<"event_attribute", i>> : i \in { j \in 1..Len(state.event_attr_results) :
          /\ state.event_attr_results[j].original_query = q
          /\ state.event_attr_results[j].matched_field.score >= 75 } }

\* C13: Ambiguity detection groups the original resolver matches of all
\* three categories together by source query text: a query text with two or
\* more matches at or above the ambiguity threshold (0.75) is reported as one
\* ambiguous group carrying every such match as a candidate, also when the
\* matches belong to different categories, and no other group is reported.
C13_CrossCategoryGroups ==
    (pc = "aggregated") =>
      LET options == state.final_result.ambiguous_options
          GroupsOf(q) == { k \in 1..Len(options) : options[k].original_query = q }
      IN /\ \A q \in AggregateQueries :
              IF Cardinality(GroupMembers(q)) >= 2
              THEN /\ Cardinality(GroupsOf(q)) = 1
                   /\ \A k \in GroupsOf(q) :
                        Len(options[k].candidates) = Cardinality(GroupMembers(q))
              ELSE GroupsOf(q) = {}
         /\ state.final_result.has_ambiguity <=>
              \E q \in AggregateQueries : Cardinality(GroupMembers(q)) >= 2

\* C13 within one category: the matches of each category are grouped by
\* source query text on the original resolver output, and a query text with
\* two or more matches of that category at or above 0.75 is one group
\* carrying every such match.
C13_GroupsWithinCategory ==
    (pc = "aggregated") =>
      LET options == state.final_result.ambiguous_options
          InCategory(q, c) == { m \in GroupMembers(q) : m[1] = c }
          GroupsOf(q, c) == { k \in 1..Len(options) :
                                options[k].original_query = q /\ options[k].category = c }
      IN /\ \A q \in AggregateQueries, c \in {"profile", "event", "event_attribute"} :
              IF Cardinality(InCategory(q, c)) >= 2
              THEN /\ Cardinality(GroupsOf(q, c)) = 1
                   /\ \A k \in GroupsOf(q, c) :
                        Len(options[k].candidates) = Cardinality(InCategory(q, c))
              ELSE GroupsOf(q, c) = {}
         /\ state.final_result.has_ambiguity <=> (options # <<>>)

\* a profile match and an event match for the same query text, both above
\* the ambiguity threshold
C13_Witness ==
    /\ pc = "aggregated"
    /\ Len(state.profile_results) = 1
    /\ Len(state.event_results) = 1
    /\ state.profile_results[1].original_query = state.event_results[1].original_query
    /\ state.profile_results[1].matched_field.score >= 75
    /\ state.event_results[1].matched_field.score >= 75
    /\ state.final_result.ambiguous_options = <<>>

\* the band the confidence policy gives a similarity score
Band(score) ==
    IF score >= 85 THEN "high" ELSE IF score >= 70 THEN "medium" ELSE "low"

BandsHold(entries) ==
    \A k \in 1..Len(entries) : entries[k].confidence_level = Band(entries[k].score)

\* the bands on the result the LangGraph Aggregator builds
C14_PipelineBands ==
    (state.final_result # NoneValue) =>
      /\ BandsHold(state.final_result.profile_attributes)
      /\ BandsHold(state.final_result.events)
      /\ BandsHold(state.final_result.event_attributes)

\* C14: Every entry of the aggregated result carries confidence level high
\* when its similarity score is at least 0.85, medium when it is at least
\* 0.70 and below 0.85, and low otherwise, on every code path that builds a
\* result: the LangGraph Aggregator and the ResultAnalyzer of process_query.
C14_ConfidenceBands ==
    /\ C14_PipelineBands
    /\ (legacy # NoneValue /\ ~legacy.raised) =>
         /\ BandsHold(legacy.result.profile_attributes)
         /\ BandsHold(legacy.result.events)
         /\ BandsHold(legacy.result.event_attributes)

\* process_query returned an event with similarity 0.80 labelled high
C14_Witness ==
    /\ pc = "legacy_returned"
    /\ ~legacy.raised
    /\ \E k \in 1..Len(legacy.result.events) :
         /\ legacy.result.events[k].score = 80
         /\ legacy.result.events[k].confidence_level = "high"

\* the scores of the entries of a result, all three lists together
SurvivingScores(result) ==
    SeqMap(LAMBDA e : e.score, result.profile_attributes)
    \o SeqMap(LAMBDA e : e.score, result.events)
    \o SeqMap(LAMBDA e : e.score, result.event_attributes)

\* confidence is the exact mean of the scores, 0 when there is none, and so
\* lies between the lowest and the highest of them
IsMeanOf(confidence, scores) ==
    IF scores = <<>> THEN confidence = 0
    ELSE /\ confidence * Len(scores) = SeqSum(scores)
         /\ \E s \in Range(scores) : s <= confidence
         /\ \E s \in Range(scores) : confidence <= s

\* confidence is the mean of the scores rounded to the nearest hundredth
IsRoundedMeanOf(confidence, scores) ==
    IF scores = <<>> THEN confidence = 0
    ELSE /\ 2 * Abs(confidence * Len(scores) - SeqSum(scores)) <= Len(scores)
         /\ \E s \in Range(scores) : s <= confidence
         /\ \E s \in Range(scores) : confidence <= s

\* the LangGraph Aggregator's confidence: the mean rounded to two decimals
C15_PipelineRoundedMean ==
    (state.final_result # NoneValue) =>
      IsRoundedMeanOf(state.final_result.confidence_score,
                      SurvivingScores(state.final_result))

\* C15: The overall confidence of a result equals the arithmetic mean of the
\* scores of all matches that survived in its three lists, is 0.0 when none
\* survived, and so lies between the lowest and the highest surviving score,
\* for the LangGraph Aggregator and for the ResultAnalyzer alike.
C15_ConfidenceIsMean ==
    /\ (state.final_result # NoneValue) =>
         IsMeanOf(state.final_result.confidence_score, SurvivingScores(state.final_result))
    /\ (legacy # NoneValue /\ ~legacy.raised) =>
         IsMeanOf(legacy.result.confidence_score, SurvivingScores(legacy.result))

\* the ResultAnalyzer half of C15 with rounding allowed
C15_LegacyRoundedMean ==
    (legacy # NoneValue /\ ~legacy.raised) =>
      IsRoundedMeanOf(legacy.result.confidence_score, SurvivingScores(legacy.result))

\* process_query returned events scoring 0.80 and 0.40 with confidence 0.88
C15_Witness ==
    /\ pc = "legacy_returned"
    /\ ~legacy.raised
    /\ Len(legacy.result.events) = 2
    /\ legacy.result.event_attributes = <<>>
    /\ { legacy.result.events[k].score : k \in 1..2 } = {40, 80}
    /\ legacy.result.confidence_score = 88

\* the output list fed by the searches kept in pending
SearchedList ==
    IF pending.list = "events" THEN legacy.result.events
    ELSE legacy.result.event_attributes

\* the searches that returned the catalog entry, and the scores they gave it
SearchesReturning(id) ==
    { i \in 1..Len(pending.observed) :
        \E h \in Range(pending.observed[i]) : h.entry.id = id }

ObservedScoresOf(id) ==
    { h.score : h \in { x \in UNION { Range(pending.observed[i]) :
                                         i \in 1..Len(pending.observed) } :
                          x.entry.id = id } }

\* C16: A catalog identifier returned by more than one search of the same
\* query (the primary and an enhanced search, or the searches of two query
\* fragments) is in the final output list exactly once, with the highest
\* score those searches gave it (stated for identifiers whose highest score
\* passes the threshold filter of the path, if the path has one).
C16_OnceAtHighestScore ==
    (pc \in {"structured_returned", "keyword_returned"}) =>
      \A id \in {"E1", "E2", "A1", "A2"} :
        Cardinality(SearchesReturning(id)) >= 2 =>
          LET entries == { k \in 1..Len(SearchedList) : SearchedList[k].id = id }
              best == CHOOSE m \in ObservedScoresOf(id) :
                        \A x \in ObservedScoresOf(id) : x <= m
          IN /\ Cardinality(entries) <= 1
             /\ best >= pending.threshold =>
                  /\ Cardinality(entries) = 1
                  /\ \A k \in entries : SearchedList[k].score = best

\* C16, first half only: an identifier returned by several searches is in
\* the output list at most once
C16_AtMostOnce ==
    (pc \in {"structured_returned", "keyword_returned"}) =>
      \A id \in {"E1", "E2", "A1", "A2"} :
        Cardinality({ k \in 1..Len(SearchedList) : SearchedList[k].id = id }) <= 1

\* the searches of two attribute queries returned the same entry, first at
\* 0.40 and then at 0.90, and the output keeps it at 0.40
C16_Witness ==
    /\ pc = "structured_returned"
    /\ Len(pending.observed) = 2
    /\ \E h \in Range(pending.observed[1]) : h.entry.id = "A1" /\ h.score = 40
    /\ \E h \in Range(pending.observed[2]) : h.entry.id = "A1" /\ h.score = 90
    /\ \E k \in 1..Len(legacy.result.event_attributes) :
         /\ legacy.result.event_attributes[k].id = "A1"
         /\ legacy.result.event_attributes[k].score = 40

\* the primary search returned an event at 0.90, the enhanced search the
\* same event at 0.80, and the output keeps it at 0.80
C16_KeywordWitness ==
    /\ pc = "keyword_returned"
    /\ Len(pending.observed) = 2
    /\ \E h \in Range(pending.observed[1]) : h.entry.id = "E1" /\ h.score = 90
    /\ \E h \in Range(pending.observed[2]) : h.entry.id = "E1" /\ h.score = 80
    /\ \E k \in 1..Len(legacy.result.events) :
         /\ legacy.result.events[k].id = "E1"
         /\ legacy.result.events[k].score = 80


\* a result without the time stamp
ModuloTime(result) == [k \in DOMAIN result \ {"execution_time"} |-> result[k]]

\* C17 (idempotence): every later run of the query "user age", whatever the
\* earlier runs left in the embedding cache and in the pipeline state handed
\* back to run_agent, has the final result of the first run in every field
\* except execution_time
C17_Idempotent ==
    (pc \in {"fresh", "resumed"} /\ returned # NoneValue)
        => ModuloTime(state.final_result) = ModuloTime(returned.final_result)

\* the part that holds: a run whose initial state run_agent builds itself
\* has the final result of the first run, whatever the cache holds
C17_FreshIdempotent ==
    (pc = "fresh" /\ returned # NoneValue)
        => ModuloTime(state.final_result) = ModuloTime(returned.final_result)

\* a second run started from the state of the first has run, after an entry
\* of the cache expired or was evicted
C17_Witness ==
    /\ pc = "resumed"
    /\ returned # NoneValue
    /\ returned.final_result.total_results > 0
    /\ pending.now > ttl

\* a fresh second run found its texts in the cache
C17_WarmWitness ==
    /\ pc = "fresh"
    /\ returned # NoneValue
    /\ returned.final_result.total_results > 0
    /\ \E i \in 1..Len(pending.cache.cache) :
         pending.cache.cache[i].timestamp < pending.now


\* C18 (batching is not observable): from every cache the session reaches
\* and for every list of texts, the batched call yields one embedding per
\* text, the embedding of the i-th text in the i-th place, and the stage
\* finds the same matches in the same order as when each text is resolved on
\* its own
C18_BatchingNotObservable ==
    \A texts \in BatchLists :
        LET both == BothWays(legacy, pending.cache, texts, pending.now)
        IN /\ Len(both.embeddings) = Len(texts)
           /\ \A i \in 1..Len(texts) : both.embeddings[i] = DenseVec(texts[i])
           /\ both.batched = both.singly

\* after a batched call the cache is warm: a list with a text that is cached
\* behind one that is not, and with a text that occurs twice, finds matches
C18_Witness ==
    /\ pc = "batched"
    /\ \E texts \in BatchLists :
         LET both == BothWays(legacy, pending.cache, texts, pending.now)
         IN /\ both.batched # <<>>
            /\ \E i, j \in 1..Len(texts) :
                 i < j /\ i \notin both.cached /\ j \in both.cached
            /\ \E i, j \in 1..Len(texts) : i # j /\ texts[i] = texts[j]

\* a list whose uncached texts span more than one call of the model
C18_SeveralCallsWitness ==
    /\ pc = "batched"
    /\ \E texts \in BatchLists :
         LET both == BothWays(legacy, pending.cache, texts, pending.now)
         IN both.batched # <<>> /\ both.model_calls > 1

\* a full cache that holds an expired entry
C18_FullCacheWitness ==
    /\ pc = "batched"
    /\ Len(pending.cache.cache) = max_size
    /\ \E i \in 1..Len(pending.cache.cache) :
         pending.now - pending.cache.cache[i].timestamp > ttl


\* the names a person_attributes payload carries
PayloadNames(person_attrs) ==
    IF person_attrs.kind = "dict"
    THEN { person_attrs.items[i][1] : i \in 1..Len(person_attrs.items) }
    ELSE IF person_attrs.kind = "list" THEN Range(person_attrs.items)
    ELSE {}

\* the strings a payload is written with, and those of them that are blank
\* or carry whitespace at an end
PayloadStrings ==
    NormNames \cup NormValues
    \cup {"purchase", " purchase ", "amount", " amount ", " high ", "high", "male"}

BasePadded == { t \in PayloadStrings : t = "" \/ Strip(t) # t }

IsClean(text) ==
    /\ text \notin BasePadded
    /\ \A k, v \in PayloadStrings :
         text = k \o ": " \o v => (k \notin BasePadded \/ k = "") /\ v \notin BasePadded

PlainPayload(person_attrs) ==
    /\ PayloadNames(person_attrs) \cap (BasePadded \cup {Five}) = {}
    /\ person_attrs.kind = "dict" =>
         \A i \in 1..Len(person_attrs.items) : person_attrs.items[i][2] \notin BasePadded

\* what C19 says of a payload and the canonical queries made from it
ShapesAccepted(person_attrs, queries) ==
    /\ person_attrs.kind = "dict" =>
         /\ Len(queries) = Len(person_attrs.items)
         /\ \A i \in 1..Len(queries) :
              /\ queries[i].attribute_name = person_attrs.items[i][1]
              /\ queries[i].query_text =
                   person_attrs.items[i][1] \o ": " \o person_attrs.items[i][2]
    /\ person_attrs.kind = "list" =>
         /\ Len(queries) = Len(person_attrs.items)
         /\ \A i \in 1..Len(queries) :
              /\ queries[i].attribute_name = person_attrs.items[i]
              /\ queries[i].query_text = person_attrs.items[i]
    /\ person_attrs.kind = "other" => queries = <<>>

C19_ListWitness ==
    /\ pc = "node"
    /\ "person_attributes" \in DOMAIN legacy
    /\ legacy.person_attributes.kind = "list"
    /\ Len(returned.profile_attributes) = 2

\* the node and the parser have read a field that is neither shape
C19_OtherWitness ==
    /\ pc \in {"node", "parser"}
    /\ "person_attributes" \in DOMAIN legacy
    /\ legacy.person_attributes.kind = "other"
    /\ returned.profile_attributes = <<>>

\* the parser has made canonical queries from a mapping without blanks
C19_ParserWitness ==
    /\ pc = "parser"
    /\ "person_attributes" \in DOMAIN legacy
    /\ legacy.person_attributes.kind = "dict"
    /\ PlainPayload(legacy.person_attributes)
    /\ Len(returned.profile_attributes) = 2

\* the query texts of a normalizer's result
CanonicalTexts(result) ==
    { q.query_text : q \in Range(result.profile_attributes) }
    \cup { e.event_description : e \in Range(result.events) }
    \cup UNION { Range(e.event_attributes) : e \in Range(result.events) }

\* C20 (trimmed, blanks dropped): after normalization no person-attribute
\* query text, event description or event-attribute query text is empty or
\* carries whitespace at an end, and a list of one name, an empty string and
\* a whitespace-only string yields exactly one canonical query
C20_TrimmedNonEmpty ==
    pc \in {"node", "parser"} =>
        /\ \A text \in CanonicalTexts(returned) : IsClean(text)
        /\ ("person_attributes" \in DOMAIN legacy
            /\ legacy.person_attributes.kind = "list"
            /\ legacy.person_attributes.items = <<"age", "", "  ">>)
           => Len(returned.profile_attributes) = 1

\* the part that holds: parse_structured_extraction trims and drops
C20_ParserTrimmed ==
    pc = "parser" =>
        /\ \A text \in CanonicalTexts(returned) : IsClean(text)
        /\ ("person_attributes" \in DOMAIN legacy
            /\ legacy.person_attributes.kind = "list"
            /\ legacy.person_attributes.items = <<"age", "", "  ">>)
           => Len(returned.profile_attributes) = 1

\* the node has normalized the list of one name, an empty string and a
\* whitespace-only string
C20_Witness ==
    /\ pc = "node"
    /\ "person_attributes" \in DOMAIN legacy
    /\ legacy.person_attributes.kind = "list"
    /\ legacy.person_attributes.items = <<"age", "", "  ">>
    /\ "error" \notin DOMAIN returned

\* the parser has dropped the blanks of that list
C20_ParserWitness ==
    /\ pc = "parser"
    /\ "person_attributes" \in DOMAIN legacy
    /\ legacy.person_attributes.kind = "list"
    /\ legacy.person_attributes.items = <<"age", "", "  ">>
    /\ Len(returned.profile_attributes) = 1

----------------------------------------------------------------------------
(* Events without a usable description, total failure, malformed entries   *)
(* and input order in the two normalizers                                  *)

\* the event entries of a payload, whichever field name carries them
EventEntries(sq) ==
    IF sq \in {NoneValue, NotADict, ExtractRaises} THEN <<>>
    ELSE IF BehavioralEventsOf(sq).kind = "list" THEN BehavioralEventsOf(sq).items
    ELSE <<>>

\* an entry with a description that is a string with a character other than
\* whitespace in it
UsableDescription(event) ==
    /\ IsDict(event)
    /\ IsStr(EventDescriptionOf(event))
    /\ Strip(EventDescriptionOf(event)) # ""

\* C21 (events without a description are dropped): every canonical event has
\* a description that is not blank, so an entry whose description is missing,
\* empty or whitespace-only is never handed to the router or the resolvers,
\* and a payload with no usable entry never takes a route through the Event
\* Resolver
C21_BlankEventsDropped ==
    pc \in {"node", "parser"} =>
        /\ \A i \in 1..Len(returned.events) :
             Strip(returned.events[i].event_description) # ""
        /\ route_query(returned) \in {"search_events", "search_mixed"} =>
             \E i \in 1..Len(EventEntries(legacy)) :
                UsableDescription(EventEntries(legacy)[i])

\* the part that holds: parse_structured_extraction drops them
C21_ParserDrops ==
    pc = "parser" =>
        /\ \A i \in 1..Len(returned.events) :
             Strip(returned.events[i].event_description) # ""
        /\ route_query(returned) \in {"search_events", "search_mixed"} =>
             \E i \in 1..Len(EventEntries(legacy)) :
                UsableDescription(EventEntries(legacy)[i])

\* the node has normalized a payload whose only event has a whitespace-only
\* description and the attribute "amount"
C21_Witness ==
    /\ pc = "node"
    /\ "error" \notin DOMAIN returned
    /\ Len(EventEntries(legacy)) = 1
    /\ EventDescriptionOf(EventEntries(legacy)[1]) = "  "
    /\ ParseEventAttributes(EventEntries(legacy)[1]) = <<"amount">>

\* the parser has dropped an entry without a description that stood beside
\* a usable one
C21_ParserWitness ==
    /\ pc = "parser"
    /\ Len(EventEntries(legacy)) = 2
    /\ "event_description" \notin DOMAIN EventEntries(legacy)[1]
    /\ IsDict(EventEntries(legacy)[1])
    /\ Len(returned.events) = 1

\* the payload is absent or of a type the normalizer at pc cannot read, or
\* the extraction call raised
TotalFailure ==
    \/ legacy \in {NoneValue, NotADict, ExtractRaises}
    \/ pc = "node" /\ BehavioralEventsOf(legacy).kind = "other"
    \/ pc = "parser" /\ LegacyParseRaises(legacy)

\* C22 (the normalizer never fails): whatever the payload, the normalizer
\* hands back a list of person-attribute queries and a list of events; when
\* the payload is absent, None or of a wrong type, when the extraction call
\* raised, or when an exception was recorded, both lists are empty
C22_NeverFails ==
    pc \in {"node", "parser"} =>
        /\ {"profile_attributes", "events"} \subseteq DOMAIN returned
        /\ DOMAIN returned.profile_attributes = 1..Len(returned.profile_attributes)
        /\ DOMAIN returned.events = 1..Len(returned.events)
        /\ (TotalFailure \/ "error" \in DOMAIN returned) =>
             /\ returned.profile_attributes = <<>>
             /\ returned.events = <<>>
        /\ (pc = "node" /\ TotalFailure /\ legacy # NoneValue) =>
             "error" \in DOMAIN returned

\* the node has met an events field without a length after it had read a
\* list of person attributes
C22_Witness ==
    /\ pc = "node"
    /\ legacy \notin {NoneValue, NotADict, ExtractRaises}
    /\ "person_attributes" \in DOMAIN legacy
    /\ legacy.person_attributes.kind = "list"
    /\ Len(legacy.person_attributes.items) = 2
    /\ BehavioralEventsOf(legacy).kind = "other"
    /\ "error" \in DOMAIN returned

\* the node has run on an extraction call that raised
C22_RaisesWitness ==
    /\ pc = "node"
    /\ legacy = ExtractRaises
    /\ returned.events = <<>>

\* the parser has met an exception after it had read person attributes
C22_ParserWitness ==
    /\ pc = "parser"
    /\ legacy \notin {NoneValue, NotADict, ExtractRaises}
    /\ "person_attributes" \in DOMAIN legacy
    /\ legacy.person_attributes = NormMalformedList
    /\ LegacyParseRaises(legacy)
    /\ returned.profile_attributes = <<>>

\* the well-formed person-attribute names of a payload: strings that are
\* not blank, in a mapping with a value that is not blank
WellFormedNames(sq) ==
    LET person_attrs == Get(sq, "person_attributes", Other) IN
    IF person_attrs.kind = "list"
    THEN { Strip(name) : name \in { n \in Range(person_attrs.items) :
                                      IsStr(n) /\ Strip(n) # "" } }
    ELSE IF person_attrs.kind = "dict"
    THEN { Strip(item[1]) : item \in { it \in Range(person_attrs.items) :
                                         /\ IsStr(it[1])
                                         /\ Strip(it[1]) # ""
                                         /\ Strip(Str(it[2])) # "" } }
    ELSE {}

\* the descriptions of the well-formed event entries of a payload
WellFormedDescriptions(sq) ==
    { Strip(EventDescriptionOf(event)) :
        event \in { e \in Range(EventEntries(sq)) : UsableDescription(e) } }

\* an entry that is no dict, a name, key or description that is no string
MalformedEvent(event) ==
    \/ ~IsDict(event)
    \/ ~IsStr(EventDescriptionOf(event))
    \/ LET attrs == Get(event, "attributes", List(<<>>)) IN
       /\ attrs.kind = "dict"
       /\ \E i \in 1..Len(attrs.items) : ~IsStr(attrs.items[i][1])

HasMalformedEntry(sq) ==
    \/ Five \in PayloadNames(Get(sq, "person_attributes", Other))
    \/ \E i \in 1..Len(EventEntries(sq)) : MalformedEvent(EventEntries(sq)[i])

\* what a normalizer has retained
RetainedNames == { Strip(q.attribute_name) : q \in Range(returned.profile_attributes) }

RetainedDescriptions == { Strip(e.event_description) : e \in Range(returned.events) }

\* C23 (a malformed entry costs only itself): when a payload the normalizer
\* can read holds an entry that is no dict or a name, key or description that
\* is no string, every well-formed person attribute and every well-formed
\* event of the same payload is still in the canonical output
C23_MalformedSkipped ==
    (/\ pc \in {"node", "parser"}
     /\ legacy \notin {NoneValue, NotADict, ExtractRaises}
     /\ BehavioralEventsOf(legacy).kind = "list"
     /\ HasMalformedEntry(legacy)) =>
        /\ WellFormedNames(legacy) \subseteq RetainedNames
        /\ WellFormedDescriptions(legacy) \subseteq RetainedDescriptions

\* the part that holds: the node loses no well-formed entry, and the parser
\* loses none when no strip() of a value that is no string is reached
C23_GuardedEntriesSkipped ==
    (/\ pc \in {"node", "parser"}
     /\ legacy \notin {NoneValue, NotADict, ExtractRaises}
     /\ BehavioralEventsOf(legacy).kind = "list"
     /\ HasMalformedEntry(legacy)
     /\ pc = "parser" => ~LegacyParseRaises(legacy)) =>
        /\ WellFormedNames(legacy) \subseteq RetainedNames
        /\ WellFormedDescriptions(legacy) \subseteq RetainedDescriptions

\* the parser has normalized a payload with two well-formed names and a
\* well-formed event followed by an event whose description is no string
C23_Witness ==
    /\ pc = "parser"
    /\ legacy \notin {NoneValue, NotADict, ExtractRaises}
    /\ WellFormedNames(legacy) = {"age", "gender"}
    /\ Len(EventEntries(legacy)) = 2
    /\ UsableDescription(EventEntries(legacy)[1])
    /\ IsDict(EventEntries(legacy)[2])
    /\ EventDescriptionOf(EventEntries(legacy)[2]) = Five

\* the parser has skipped a list item that is no string and an entry that is
\* no dict, and kept the others
C23_GuardedWitness ==
    /\ pc = "parser"
    /\ legacy \notin {NoneValue, NotADict, ExtractRaises}
    /\ Get(legacy, "person_attributes", Other) = NormMalformedList
    /\ Len(EventEntries(legacy)) = 2
    /\ ~IsDict(EventEntries(legacy)[1])
    /\ Len(returned.profile_attributes) = 2
    /\ Len(returned.events) = 1

\* the node has normalized a payload with an event whose description is no
\* string between well-formed entries
C23_NodeWitness ==
    /\ pc = "node"
    /\ legacy \notin {NoneValue, NotADict, ExtractRaises}
    /\ Len(EventEntries(legacy)) = 2
    /\ IsDict(EventEntries(legacy)[1])
    /\ EventDescriptionOf(EventEntries(legacy)[1]) = Five
    /\ UsableDescription(EventEntries(legacy)[2])
    /\ Len(returned.events) = 2

\* out is made of entries of inp, each taken at most once, in inp's order
InOrder(out, inp) ==
    \E f \in [1..Len(out) -> 1..Len(inp)] :
       /\ \A i, j \in 1..Len(out) : i < j => f[i] < f[j]
       /\ \A i \in 1..Len(out) : out[i] = inp[f[i]]

\* a text as the normalizer at pc writes it: the parser trims, the node
\* does not
Canon(text) == IF pc = "parser" THEN Strip(text) ELSE text

\* the person-attribute names of a payload in the payload's order
InputNames(sq) ==
    LET person_attrs == Get(sq, "person_attributes", Other) IN
    IF person_attrs.kind = "list"
    THEN [i \in 1..Len(person_attrs.items) |-> Canon(person_attrs.items[i])]
    ELSE IF person_attrs.kind = "dict"
    THEN [i \in 1..Len(person_attrs.items) |-> Canon(person_attrs.items[i][1])]
    ELSE <<>>

\* the attribute texts of one event entry in the entry's order
InputAttributeTexts(event) ==
    LET attrs == Get(event, "attributes", Other) IN
    IF attrs.kind = "list"
    THEN [i \in 1..Len(attrs.items) |-> Canon(attrs.items[i])]
    ELSE IF attrs.kind = "dict"
    THEN [i \in 1..Len(attrs.items) |->
            FormatKV(Canon(attrs.items[i][1]), Canon(attrs.items[i][2]))]
    ELSE <<>>

\* C24 (input order is kept): the canonical person-attribute queries are
\* entries of the payload in the payload's order, each taken at most once;
\* so are the canonical events, and so are the attribute queries of each
\* canonical event among the attributes of the entry it was made from
C24_OrderPreserved ==
    (pc \in {"node", "parser"} /\ legacy \notin {NoneValue, NotADict, ExtractRaises}) =>
        /\ InOrder([i \in 1..Len(returned.profile_attributes) |->
                      returned.profile_attributes[i].attribute_name],
                   InputNames(legacy))
        /\ \E f \in [1..Len(returned.events) -> 1..Len(EventEntries(legacy))] :
              /\ \A i, j \in 1..Len(returned.events) : i < j => f[i] < f[j]
              /\ \A i \in 1..Len(returned.events) :
                    /\ IsDict(EventEntries(legacy)[f[i]])
                    /\ returned.events[i].event_description =
                         Canon(EventDescriptionOf(EventEntries(legacy)[f[i]]))
                    /\ InOrder(returned.events[i].event_attributes,
                               InputAttributeTexts(EventEntries(legacy)[f[i]]))

\* the node has normalized a login event followed by a purchase event with
\* two attributes
C24_Witness ==
    /\ pc = "node"
    /\ Len(returned.events) = 2
    /\ returned.events[1].event_description = "login"
    /\ returned.events[2].event_description = "purchase"
    /\ Len(returned.events[2].event_attributes) = 2

\* the parser has normalized three names given in a list, and two events
C24_ParserWitness ==
    /\ pc = "parser"
    /\ Len(returned.profile_attributes) = 2
    /\ returned.profile_attributes[1].attribute_name = "gender"
    /\ returned.profile_attributes[2].attribute_name = "age"

\* the parser has normalized two events of which the first has two
\* attributes given as a mapping
C24_MappingWitness ==
    /\ pc = "parser"
    /\ Len(returned.events) = 2
    /\ returned.events[1].event_attributes = <<"amount: high", "time: recent">>

\* the attribute texts of an entry that are whole: names that are not
\* blank, and "name: value" of mapping entries with neither part blank
WholeAttributeTexts(event) ==
    LET attrs == Get(event, "attributes", Other) IN
    IF attrs.kind = "list"
    THEN SeqMap(Canon, SeqFilter(LAMBDA name : IsStr(name) /\ Strip(name) # "", attrs.items))
    ELSE IF attrs.kind = "dict"
    THEN SeqMap(LAMBDA item : FormatKV(Canon(item[1]), Canon(item[2])),
                SeqFilter(LAMBDA item : Strip(item[1]) # "" /\ Strip(item[2]) # "",
                          attrs.items))
    ELSE <<>>

\* no attributes field, one that is neither a mapping nor a list, an empty
\* one, or a list of names that are all blank
NoUsableAttributes(event) ==
    LET attrs == Get(event, "attributes", Other) IN
    \/ attrs.kind = "other"
    \/ attrs.kind \in {"list", "dict"} /\ attrs.items = <<>>
    \/ attrs.kind = "list" /\ \A i \in 1..Len(attrs.items) : Strip(attrs.items[i]) = ""

\* what C28 says of one canonical event made from one entry
RetainedAs(event, canonical) ==
    /\ canonical.event_description = Canon(EventDescriptionOf(event))
    /\ SeqFilter(LAMBDA text : text \in Range(WholeAttributeTexts(event)),
                 canonical.event_attributes) = WholeAttributeTexts(event)
    /\ NoUsableAttributes(event) => canonical.event_attributes = <<>>

\* C28 (an event with a description is retained): every entry with a usable
\* description yields a canonical event, whatever its attributes: without
\* attributes, with attributes of another type or with attributes that are
\* all empty the event has an empty attribute-query list; a mapping yields
\* the "name: value" texts and a list the names, under either field name.
\* For the parser it is stated of the payloads whose parse does not raise
C28_UsableEventRetained ==
    (/\ pc \in {"node", "parser"}
     /\ legacy \notin {NoneValue, NotADict, ExtractRaises}
     /\ pc = "parser" => ~LegacyParseRaises(legacy)) =>
        \A i \in 1..Len(EventEntries(legacy)) :
           UsableDescription(EventEntries(legacy)[i]) =>
              \E j \in 1..Len(returned.events) :
                 RetainedAs(EventEntries(legacy)[i], returned.events[j])

\* the part that holds: parse_structured_extraction
C28_ParserRetains ==
    (/\ pc = "parser"
     /\ legacy \notin {NoneValue, NotADict, ExtractRaises}
     /\ ~LegacyParseRaises(legacy)) =>
        \A i \in 1..Len(EventEntries(legacy)) :
           UsableDescription(EventEntries(legacy)[i]) =>
              \E j \in 1..Len(returned.events) :
                 RetainedAs(EventEntries(legacy)[i], returned.events[j])

\* the part that holds of the node: the event is retained, and with an
\* empty attribute-query list unless its attributes are a list of blanks
C28_NodeRetains ==
    (pc = "node" /\ legacy \notin {NoneValue, NotADict, ExtractRaises}) =>
        \A i \in 1..Len(EventEntries(legacy)) :
           (/\ UsableDescription(EventEntries(legacy)[i])
            /\ Get(EventEntries(legacy)[i], "attributes", Other) # List(<<"", "  ">>)) =>
              \E j \in 1..Len(returned.events) :
                 RetainedAs(EventEntries(legacy)[i], returned.events[j])

\* the node has normalized an event "purchase" whose attributes are an empty
\* and a whitespace-only name
C28_Witness ==
    /\ pc = "node"
    /\ Len(EventEntries(legacy)) = 1
    /\ EventDescriptionOf(EventEntries(legacy)[1]) = "purchase"
    /\ Get(EventEntries(legacy)[1], "attributes", Other) = List(<<"", "  ">>)
    /\ Len(returned.events) = 1

\* the parser has retained an event without attributes and one whose
\* attributes are neither a mapping nor a list
C28_ParserWitness ==
    /\ pc = "parser"
    /\ Len(EventEntries(legacy)) = 2
    /\ EventDescriptionOf(EventEntries(legacy)[1]) = "browse"
    /\ "attributes" \notin DOMAIN EventEntries(legacy)[1]
    /\ Get(EventEntries(legacy)[2], "attributes", List(<<>>)) = Other
    /\ Len(returned.events) = 2
    /\ returned.events[1].event_attributes = <<>>
    /\ returned.events[2].event_attributes = <<>>

\* the parser has retained an event given under event_type with its
\* attributes given as a list
C28_MixedWitness ==
    /\ pc = "parser"
    /\ Len(returned.events) = 2
    /\ "event_type" \in DOMAIN EventEntries(legacy)[1]
    /\ returned.events[1] = [event_description |-> "login", event_attributes |-> <<"device">>]

----------------------------------------------------------------------------
(* The names route_query returns                                           *)

\* C27 (route names): on the state left by intent classification route_query
\* returns "search_profiles" when only person-attribute queries are present,
\* "search_events" when only events are present, and "search_both" when both
\* are present and when neither is
C27_RouteNames ==
    (trace # <<>> /\ pc # "returned") =>
        route_query(state) =
            IF (Len(state.profile_attributes) > 0) = (Len(state.events) > 0)
            THEN "search_both"
            ELSE IF Len(state.events) > 0 THEN "search_events"
            ELSE "search_profiles"

\* the part that holds: the routes taken when exactly one list has entries
C27_SingleRoutes ==
    (trace # <<>> /\ pc # "returned") =>
        /\ (Len(state.profile_attributes) > 0 /\ Len(state.events) = 0) =>
             route_query(state) = "search_profiles"
        /\ (Len(state.profile_attributes) = 0 /\ Len(state.events) > 0) =>
             route_query(state) = "search_events"

\* intent classification has left both lists with entries and the router has
\* sent the run to the combined search
C27_Witness ==
    /\ trace = <<"intent_classification">>
    /\ Len(state.profile_attributes) > 0
    /\ Len(state.events) > 0
    /\ pc = "search_profiles_and_events"

\* intent classification has left both lists empty and the router has sent
\* the run to the profile search
C27_FallbackWitness ==
    /\ trace = <<"intent_classification">>
    /\ Len(state.profile_attributes) = 0
    /\ Len(state.events) = 0
    /\ pc = "search_profiles"

----------------------------------------------------------------------------
(* The parent event of an event-attribute match                            *)

\* the final result of a run whose aggregation did not fail
Aggregated ==
    /\ pc = "END"
    /\ state.final_result # NoneValue
    /\ "error" \notin DOMAIN state.final_result

\* C25 (the parent event is carried through aggregation): every match of the
\* Event-Attribute Resolver records the catalog identifier of the resolved
\* event it was searched under, and every entry of the final
\* event_attributes list names that identifier
C25_ParentCarried ==
    /\ \A i \in 1..Len(state.event_attr_results) :
         \E e \in Range(state.event_results) :
            /\ state.event_attr_results[i].source = EventSource(e)
            /\ state.event_attr_results[i].original_query \in Range(e.event_attributes)
    /\ Aggregated =>
         \A i \in 1..Len(state.final_result.event_attributes) :
            \E m \in Range(state.event_attr_results) :
               /\ m.original_query = state.final_result.event_attributes[i].original_query
               /\ m.matched_field.idname = state.final_result.event_attributes[i].idname
               /\ state.final_result.event_attributes[i].event_idname = m.source

\* the part that holds: the stage's matches record their parent event, and
\* the final entries carry that event's display name
C25_StageRecordsParent ==
    /\ \A i \in 1..Len(state.event_attr_results) :
         \E e \in Range(state.event_results) :
            /\ state.event_attr_results[i].source = EventSource(e)
            /\ state.event_attr_results[i].event_name = e.matched_field.source_name
            /\ state.event_attr_results[i].original_query \in Range(e.event_attributes)
    /\ Aggregated =>
         \A i \in 1..Len(state.final_result.event_attributes) :
            \E m \in Range(state.event_attr_results) :
               /\ m.original_query = state.final_result.event_attributes[i].original_query
               /\ state.final_result.event_attributes[i].event_name = m.event_name

\* a run has ended with an attribute match under the event "purchase" in its
\* final result
C25_Witness ==
    /\ Aggregated
    /\ Len(state.final_result.event_attributes) >= 1
    /\ \E m \in Range(state.event_attr_results) : m.source = "purchase"

\* a run has ended with the attribute "amount" matched under two events
C25_TwoEventsWitness ==
    /\ Aggregated
    /\ \E m, n \in Range(state.event_attr_results) :
          /\ m.source = "purchase"
          /\ n.source = "login"
          /\ m.matched_field.idname = n.matched_field.idname
    /\ Len(state.final_result.event_attributes) = 2

----------------------------------------------------------------------------
(* The attribute queries an event match carries forward                    *)

\* the searches the matches of the Event Resolver call for: for each match
\* in turn, one search per attribute query it carries, filtered to the
\* matched event
DeclaredSearches ==
    Flatten([i \in 1..Len(state.event_results) |->
               [j \in 1..Len(state.event_results[i].event_attributes) |->
                  [text |-> state.event_results[i].event_attributes[j],
                   source |-> state.event_results[i].matched_field.idname]]])

\* the searches the Event-Attribute Resolver has made
MadeSearches ==
    [k \in 1..Len(AttributeSearches) |->
       [text |-> AttributeSearches[k].text, source |-> AttributeSearches[k].source]]

\* C26 (declared attribute queries carried forward unchanged): every match of
\* the Event Resolver carries the attribute-query list the normalizer
\* declared for the event it was made from, in content and order, and the
\* Event-Attribute Resolver searches those texts under that event, in that
\* order, and nothing else; a stage that fails stops part way through them
C26_DeclaredAttributesCarried ==
    /\ produced.events.ran =>
         \A i \in 1..Len(EventStageOutput) :
            \E j \in 1..Len(state.events) :
               /\ EventStageOutput[i].original_query = state.events[j].event_description
               /\ EventStageOutput[i].event_attributes = state.events[j].event_attributes
    /\ produced.event_attributes.ran =>
         /\ Len(MadeSearches) <= Len(DeclaredSearches)
         /\ MadeSearches = SubSeq(DeclaredSearches, 1, Len(MadeSearches))
         /\ ~produced.event_attributes.raised => MadeSearches = DeclaredSearches
    /\ ~produced.event_attributes.ran => MadeSearches = <<>>

\* the Event-Attribute Resolver has searched the two attribute queries of a
\* matched event
C26_Witness ==
    /\ produced.event_attributes.ran
    /\ ~produced.event_attributes.raised
    /\ \E i \in 1..Len(state.event_results) :
          Len(state.event_results[i].event_attributes) = 2
    /\ Len(MadeSearches) >= 2

\* the Event-Attribute Resolver has searched the attribute queries of two
\* matched events
C26_TwoEventsWitness ==
    /\ produced.event_attributes.ran
    /\ ~produced.event_attributes.raised
    /\ \E k, l \in 1..Len(MadeSearches) : MadeSearches[k].source # MadeSearches[l].source

----------------------------------------------------------------------------
(* The Event Resolver beside the Attribute Resolver                        *)

\* what search_profiles_node makes of the candidates the store returned for
\* the i-th event query
AsAttributeResolver(i) ==
    ProfileMatch([attribute_name |-> state.events[i].event_description,
                  query_text |-> state.events[i].event_description],
                 pending[i].hits, similarity_threshold, resolver_ambiguity_margin)

\* the matches search_events_node has made for the i-th event query
EventMatchesOf(i) ==
    { r \in Range(returned.event_results) :
        r.original_query = state.events[i].event_description }

\* C29 (one procedure for both resolvers): on the same candidate list the
\* Event Resolver accepts a match exactly when the Attribute Resolver does,
\* accepts the same candidate with the same score, and flags it ambiguous
\* exactly when the Attribute Resolver does
C29_SameProcedure ==
    pc = "selected_events" =>
        \A i \in 1..Len(state.events) :
           /\ (EventMatchesOf(i) = {}) <=> (AsAttributeResolver(i) = <<>>)
           /\ \A r \in EventMatchesOf(i) :
                 /\ r.matched_field.id = AsAttributeResolver(i)[1].matched_field.id
                 /\ r.matched_field.score = AsAttributeResolver(i)[1].matched_field.score
                 /\ Get(r.matched_field, "has_ambiguity", FALSE)
                      = AsAttributeResolver(i)[1].matched_field.has_ambiguity

\* the part that holds: the same candidate is accepted
C29_SameCandidate ==
    pc = "selected_events" =>
        \A i \in 1..Len(state.events) :
           /\ (EventMatchesOf(i) = {}) <=> (AsAttributeResolver(i) = <<>>)
           /\ \A r \in EventMatchesOf(i) :
                 /\ r.matched_field.id = AsAttributeResolver(i)[1].matched_field.id
                 /\ r.matched_field.score = AsAttributeResolver(i)[1].matched_field.score

\* the Event Resolver has accepted a match for an event query whose two
\* candidates both scored 0.8
C29_Witness ==
    /\ pc = "selected_events"
    /\ Len(pending[1].hits) = 2
    /\ pending[1].hits[1].score = 80
    /\ pending[1].hits[2].score = 80
    /\ EventMatchesOf(1) # {}

\* the Event Resolver has accepted the second of two candidates, the better
\* one, with the first also above the threshold
C29_SecondBestWitness ==
    /\ pc = "selected_events"
    /\ Len(pending[1].hits) = 2
    /\ pending[1].hits[1].score = 80
    /\ pending[1].hits[2].score = 90
    /\ \E r \in EventMatchesOf(1) : r.matched_field.id = pending[1].hits[2].entry.id

----------------------------------------------------------------------------
(* What a resolver stage keeps of an ambiguous query                       *)

\* the candidates at or above the threshold the store returned for the i-th
\* query of the stage, best first
Ranked(i) == SortedByScoreDesc(ValidResults(pending[i].hits, similarity_threshold))

\* the matches the stage has put out for a query text
StageMatchesOf(results, text) == { r \in Range(results) : r.original_query = text }

\* C30 (both candidates of an ambiguous match are retained): when a resolver
\* flags the match of a query as ambiguous, the stage's output for that query
\* holds the rank-1 and the rank-2 candidate
C30_AlternativeRetained ==
    /\ pc = "ambiguity_profiles" =>
         \A i \in 1..Len(state.profile_attributes) :
            (\E r \in StageMatchesOf(returned.profile_results,
                                     state.profile_attributes[i].query_text) :
                r.matched_field.has_ambiguity)
            => {Ranked(i)[1].entry.id, Ranked(i)[2].entry.id}
                 \subseteq { r.matched_field.id :
                               r \in StageMatchesOf(returned.profile_results,
                                                    state.profile_attributes[i].query_text) }
    /\ pc = "ambiguity_event_attributes" =>
         \A j \in 1..Len(state.event_results[1].event_attributes) :
            (\E r \in StageMatchesOf(returned.event_attr_results,
                                     state.event_results[1].event_attributes[j]) :
                r.matched_field.has_ambiguity)
            => {Ranked(j)[1].entry.id, Ranked(j)[2].entry.id}
                 \subseteq { r.matched_field.id :
                               r \in StageMatchesOf(returned.event_attr_results,
                                                    state.event_results[1].event_attributes[j]) }

\* the part that holds: a flagged query has the rank-1 candidate in the
\* stage's output, and a second candidate stood within the margin of it
C30_BestRetained ==
    /\ pc = "ambiguity_profiles" =>
         \A i \in 1..Len(state.profile_attributes) :
            \A r \in StageMatchesOf(returned.profile_results,
                                    state.profile_attributes[i].query_text) :
               /\ r.matched_field.id = Ranked(i)[1].entry.id
               /\ r.matched_field.has_ambiguity =>
                    /\ Len(Ranked(i)) >= 2
                    /\ Ranked(i)[1].score - Ranked(i)[2].score < resolver_ambiguity_margin
    /\ pc = "ambiguity_event_attributes" =>
         \A j \in 1..Len(state.event_results[1].event_attributes) :
            \A r \in StageMatchesOf(returned.event_attr_results,
                                    state.event_results[1].event_attributes[j]) :
               /\ r.matched_field.id = Ranked(j)[1].entry.id
               /\ r.matched_field.has_ambiguity =>
                    /\ Len(Ranked(j)) >= 2
                    /\ Ranked(j)[1].score - Ranked(j)[2].score < resolver_ambiguity_margin

\* the Attribute Resolver has flagged the match of its first query, whose
\* candidates scored 0.8 and 0.76
C30_Witness ==
    /\ pc = "ambiguity_profiles"
    /\ Len(Ranked(1)) = 2
    /\ Ranked(1)[1].score = 80
    /\ Ranked(1)[2].score = 76
    /\ \E r \in Range(returned.profile_results) : r.matched_field.has_ambiguity

\* the Event-Attribute Resolver has flagged a match
C30_EventAttributeWitness ==
    /\ pc = "ambiguity_event_attributes"
    /\ \E r \in Range(returned.event_attr_results) : r.matched_field.has_ambiguity

----------------------------------------------------------------------------
(* _generate_summary on output lists of up to four entries per category    *)

SummaryField(n) ==
    [source_name |-> CASE n = 1 -> "F1" [] n = 2 -> "F2" [] n = 3 -> "F3"
                       [] n = 4 -> "F4" [] OTHER -> "F5",
     original_query |-> "age",
     event_name |-> "Purchase"]

\* no entry, one to four entries, four entries with another fourth, and two
\* entries the other way round
SummaryLists ==
    { [i \in 1..n |-> SummaryField(i)] : n \in 0..4 }
    \cup { << SummaryField(1), SummaryField(2), SummaryField(3), SummaryField(5) >>,
           << SummaryField(2), SummaryField(1) >> }

SummaryInputs ==
    { [profile_attributes |-> p, events |-> e, event_attributes |-> a] :
        p \in SummaryLists, e \in SummaryLists, a \in SummaryLists }

SummaryInit ==
    /\ pc = "summary"
    /\ state = NoneValue
    /\ returned = NoneValue
    /\ trace = <<>>
    /\ calls = <<>>
    /\ produced = NoneValue
    /\ pending \in SummaryInputs
    /\ legacy = NoneValue

\* _generate_summary on the three output lists
Summarize ==
    /\ pc = "summary"
    /\ returned' = [summary |-> _generate_summary(pending.profile_attributes, pending.events,
                                                  pending.event_attributes)]
    /\ pc' = "summarized"
    /\ UNCHANGED <<state, trace, calls, produced, pending, legacy>>

SummaryNext == Summarize

SummarySpec == SummaryInit /\ [][SummaryNext]_vars

----------------------------------------------------------------------------
(* The two field names of the events and the two keys of a description     *)

\* the entries a payload holds under either field name
EntriesUnderEitherName(sq) ==
    (IF "behavioral_events" \in DOMAIN sq /\ sq["behavioral_events"].kind = "list"
     THEN sq["behavioral_events"].items ELSE <<>>)
    \o (IF "events" \in DOMAIN sq /\ sq["events"].kind = "list"
        THEN sq["events"].items ELSE <<>>)

\* the events sit under one field name: the other field is absent or is an
\* empty list
UnderOneName(sq) ==
    \/ "behavioral_events" \notin DOMAIN sq
    \/ "events" \notin DOMAIN sq
    \/ sq["behavioral_events"] = List(<<>>)
    \/ sq["events"] = List(<<>>)

\* the value of the first description key present in an entry
FirstPresent(event) ==
    IF "event_type" \in DOMAIN event THEN event["event_type"]
    ELSE Get(event, "event_description", "")

\* C31 (either field name, first key present): a payload whose events sit
\* under one of the names behavioral_events and events, the other being
\* absent or empty, yields a canonical event for each of its entries that
\* has a description, and the description of every canonical event is the
\* value of the first of the keys event_type and event_description present
\* in the entry it was made from
C31_EitherFieldName ==
    (/\ pc \in {"node", "parser"}
     /\ legacy \in NormFieldPayloads) =>
        /\ \A i \in 1..Len(EntriesUnderEitherName(legacy)) :
              Strip(FirstPresent(EntriesUnderEitherName(legacy)[i])) # "" =>
                 \E j \in 1..Len(returned.events) :
                    returned.events[j].event_description
                      = Canon(FirstPresent(EntriesUnderEitherName(legacy)[i]))
        /\ \A j \in 1..Len(returned.events) :
              \E i \in 1..Len(EntriesUnderEitherName(legacy)) :
                 returned.events[j].event_description
                   = Canon(FirstPresent(EntriesUnderEitherName(legacy)[i]))

\* the part that holds: when the field behavioral_events is absent or holds
\* the entries, each entry with a description yields a canonical event, and
\* the description is that of event_type unless event_type is empty
C31_FirstFieldRead ==
    (/\ pc \in {"node", "parser"}
     /\ legacy \in NormFieldPayloads
     /\ Get(legacy, "behavioral_events", Other) # List(<<>>)) =>
        /\ \A i \in 1..Len(EntriesUnderEitherName(legacy)) :
              Strip(EventDescriptionOf(EntriesUnderEitherName(legacy)[i])) # "" =>
                 \E j \in 1..Len(returned.events) :
                    returned.events[j].event_description
                      = Canon(EventDescriptionOf(EntriesUnderEitherName(legacy)[i]))
        /\ \A i \in 1..Len(EntriesUnderEitherName(legacy)) :
              Get(EntriesUnderEitherName(legacy)[i], "event_type", "") # "" =>
                 EventDescriptionOf(EntriesUnderEitherName(legacy)[i])
                   = FirstPresent(EntriesUnderEitherName(legacy)[i])

\* the node has normalized a payload with an empty behavioral_events list
\* and the event "purchase" under events
C31_Witness ==
    /\ pc = "node"
    /\ legacy \in NormFieldPayloads
    /\ Get(legacy, "behavioral_events", Other) = List(<<>>)
    /\ Len(EntriesUnderEitherName(legacy)) = 1
    /\ FirstPresent(EntriesUnderEitherName(legacy)[1]) = "purchase"
    /\ "error" \notin DOMAIN returned

\* the parser has normalized the same payload
C31_ParserWitness ==
    /\ pc = "parser"
    /\ legacy \in NormFieldPayloads
    /\ Get(legacy, "behavioral_events", Other) = List(<<>>)
    /\ Len(EntriesUnderEitherName(legacy)) = 1
    /\ FirstPresent(EntriesUnderEitherName(legacy)[1]) = "purchase"
    /\ returned.events = <<>>

\* a normalizer has made an event from an entry that has both keys
C31_BothKeysWitness ==
    /\ pc = "node"
    /\ legacy \in NormFieldPayloads
    /\ Len(returned.events) = 1
    /\ returned.events[1].event_description = "login"

----------------------------------------------------------------------------
(* The summary of the final result                                         *)

\* the first three entries of a list, or all of a shorter one
FirstThree(entries) == [i \in 1..(IF Len(entries) < 3 THEN Len(entries) ELSE 3) |-> entries[i]]

\* the summary of one category alone
PartOf(category, entries) ==
    IF category = "profile" THEN _generate_summary(entries, <<>>, <<>>)
    ELSE IF category = "event" THEN _generate_summary(<<>>, entries, <<>>)
    ELSE _generate_summary(<<>>, <<>>, entries)

\* the parts of the categories that have an entry, in the order profile
\* attributes, events, event attributes
PartsPresent(lists) ==
    (IF lists.profile_attributes # <<>>
     THEN <<PartOf("profile", lists.profile_attributes)>> ELSE <<>>)
    \o (IF lists.events # <<>> THEN <<PartOf("event", lists.events)>> ELSE <<>>)
    \o (IF lists.event_attributes # <<>>
        THEN <<PartOf("event_attribute", lists.event_attributes)>> ELSE <<>>)

\* C32 (the summary): the summary depends on the first three entries of each
\* output list and on nothing else, two triples of lists that differ in one
\* of those entries have different summaries, the summary is made of the
\* parts of exactly the categories that have an entry, and it is the fixed
\* nothing-found text if and only if all three lists are empty
C32_SummaryOfTopThree ==
    pc = "summarized" =>
        /\ \A other \in SummaryInputs :
              (/\ FirstThree(other.profile_attributes) = FirstThree(pending.profile_attributes)
               /\ FirstThree(other.events) = FirstThree(pending.events)
               /\ FirstThree(other.event_attributes) = FirstThree(pending.event_attributes))
              <=> _generate_summary(other.profile_attributes, other.events,
                                    other.event_attributes) = returned.summary
        /\ PartsPresent(pending) # <<>> => returned.summary = Join("; ", PartsPresent(pending))
        /\ returned.summary = NothingFound
             <=> (/\ pending.profile_attributes = <<>>
                  /\ pending.events = <<>>
                  /\ pending.event_attributes = <<>>)

\* the summary of four profile attributes, no event and two event attributes
\* has been made
C32_Witness ==
    /\ pc = "summarized"
    /\ Len(pending.profile_attributes) = 4
    /\ pending.events = <<>>
    /\ Len(pending.event_attributes) = 2
    /\ returned.summary # NothingFound

\* the summary of three empty lists has been made
C32_NothingWitness ==
    /\ pc = "summarized"
    /\ pending.profile_attributes = <<>>
    /\ pending.events = <<>>
    /\ pending.event_attributes = <<>>
    /\ returned.summary = NothingFound

----------------------------------------------------------------------------
(* The embedding cache under get, put and clear.                           *)

CachedKeys(c) == { c.cache[i].key : i \in 1..Len(c.cache) }

AccessKeys(c) == { c.access_times[i].key : i \in 1..Len(c.access_times) }

\* the keys a put or get took out of the cache
Removed == CachedKeys(returned.before) \ CachedKeys(pending.cache)

\* C33: the embedding cache is bounded: after any sequence of get, put and
\* clear on a cache with max_size >= 1 the number of cached entries never
\* exceeds max_size (and the access-time map holds the same keys)
C33_Bounded ==
    /\ max_size >= 1
    /\ EmbeddingCache_size(pending.cache) <= max_size
    /\ Cardinality(CachedKeys(pending.cache)) = Len(pending.cache.cache)
    /\ AccessKeys(pending.cache) = CachedKeys(pending.cache)
    /\ Len(pending.cache.access_times) = Len(pending.cache.cache)

\* a put of a new text into a full cache has left the cache full
C33_Witness ==
    /\ pc = "stored"
    /\ EmbeddingCache_size(returned.before) = max_size
    /\ _get_key(returned.text) \notin CachedKeys(returned.before)
    /\ EmbeddingCache_size(pending.cache) = max_size
    /\ _get_key(returned.text) \in CachedKeys(pending.cache)

\* a clear has emptied a full cache
C33_ClearWitness ==
    /\ pc = "cleared"
    /\ EmbeddingCache_size(returned.before) = max_size
    /\ EmbeddingCache_size(pending.cache) = 0

\* the texts whose entries the step takes out of the cache
EvictedByStep ==
    { t \in CacheTexts : /\ _get_key(t) \in CachedKeys(pending.cache)
                         /\ _get_key(t) \notin CachedKeys(pending'.cache) }

\* C34: eviction is least-recently-used: whenever a put evicts an entry, the
\* evicted entry is the one whose most recent access (the later of its last
\* put and its last successful get) is the oldest among all cached entries; an
\* entry read by get more recently than another is never evicted before it
C34_LeastRecentlyUsed ==
    [][ (pc' = "stored" /\ returned'.op = "put") =>
          \A t \in EvictedByStep :
            \A u \in CacheTexts :
              _get_key(u) \in CachedKeys(pending.cache) =>
                /\ produced.accessed[t] <= produced.accessed[u]
                /\ produced.accessed[u] < produced.accessed[t] =>
                     _get_key(u) \notin CachedKeys(pending'.cache) ]_vars

\* a put has evicted the entry stored last, the one stored first having been
\* read after it
C34_Witness ==
    /\ pc = "stored"
    /\ Len(returned.before.cache) = 2
    /\ _get_key(returned.text) \notin CachedKeys(returned.before)
    /\ Removed = { returned.before.cache[2].key }
    /\ returned.before.cache[1].key \in CachedKeys(pending.cache)
    /\ DictGet(returned.before.access_times, returned.before.cache[1].key).time
         > DictGet(returned.before.access_times, returned.before.cache[2].key).time

\* a put has evicted the entry stored first
C34_OldestStoredWitness ==
    /\ pc = "stored"
    /\ Len(returned.before.cache) = 2
    /\ Removed = { returned.before.cache[1].key }
    /\ returned.before.cache[2].key \in CachedKeys(pending.cache)

\* the last put of the text the last operation was about
LastStored == produced.stored[returned.text]

\* the entry the get found under its key
FoundEntry == DictGet(returned.before.cache, _get_key(returned.text))

\* get never returns an embedding stored more than ttl ago
NeverReturnsExpired ==
    (pc = "got" /\ returned.value.hit) =>
        /\ LastStored.time >= 0
        /\ returned.at - LastStored.time <= ttl

\* a get on an expired entry is a miss and removes the entry
ExpiredIsRemoved ==
    (/\ pc = "got"
     /\ _get_key(returned.text) \in CachedKeys(returned.before)
     /\ returned.at - FoundEntry.timestamp > ttl) =>
        /\ ~returned.value.hit
        /\ _get_key(returned.text) \notin CachedKeys(pending.cache)
        /\ _get_key(returned.text) \notin AccessKeys(pending.cache)
        /\ \A k \in CachedKeys(returned.before) \ {_get_key(returned.text)} :
             k \in CachedKeys(pending.cache)

\* reading an entry does not extend its lifetime
ReadKeepsLifetime ==
    (pc = "got" /\ returned.value.hit) =>
        /\ pending.cache.cache = returned.before.cache
        /\ DictGet(pending.cache.cache, _get_key(returned.text)).timestamp = LastStored.time

\* C35 with the last part as amended: time-based expiry, and within the ttl
\* a get for the same text returns the embedding last stored for it as long
\* as the entry is still cached, and a miss once it was evicted or cleared
C35_TimeBasedExpiry ==
    /\ NeverReturnsExpired
    /\ ExpiredIsRemoved
    /\ ReadKeepsLifetime
    /\ pc = "got" =>
         /\ returned.value.hit => returned.value.embedding = LastStored.embedding
         /\ (/\ _get_key(returned.text) \in CachedKeys(returned.before)
             /\ returned.at - LastStored.time <= ttl) => returned.value.hit
         /\ _get_key(returned.text) \notin CachedKeys(returned.before) =>
              ~returned.value.hit

\* C35 as stated: time-based expiry, and within the ttl a get for the exact
\* same text returns the embedding that was stored for it
C35_AsStated ==
    /\ NeverReturnsExpired
    /\ ExpiredIsRemoved
    /\ ReadKeepsLifetime
    /\ (/\ pc = "got"
        /\ LastStored.time >= 0
        /\ returned.at - LastStored.time <= ttl) =>
           /\ returned.value.hit
           /\ returned.value.embedding = LastStored.embedding

\* a get has returned the embedding stored for a text at the end of its ttl,
\* after an earlier read of the same entry
C35_Witness ==
    /\ pc = "got"
    /\ returned.value.hit
    /\ returned.at - LastStored.time = ttl
    /\ DictGet(returned.before.access_times, _get_key(returned.text)).time
         > LastStored.time

\* a get has found an expired entry
C35_ExpiredWitness ==
    /\ pc = "got"
    /\ _get_key(returned.text) \in CachedKeys(returned.before)
    /\ returned.at - FoundEntry.timestamp > ttl
    /\ ~returned.value.hit

\* a get within the ttl of a put has missed: the entry was evicted
C35_EvictedWitness ==
    /\ pc = "got"
    /\ LastStored.time >= 0
    /\ returned.at - LastStored.time <= ttl
    /\ ~returned.value.hit
    /\ EmbeddingCache_size(returned.before) = max_size

\* C39: a put evicts an entry only when it adds a new key to a cache that is
\* already at max_size: a put for a text that is already cached replaces that
\* text's embedding and leaves every other cached entry in place
C39_PutEvictsOnlyForNewKey ==
    (pc = "stored" /\ returned.op = "put") =>
        /\ Removed # {} =>
             /\ _get_key(returned.text) \notin CachedKeys(returned.before)
             /\ EmbeddingCache_size(returned.before) >= max_size
        /\ _get_key(returned.text) \in CachedKeys(returned.before) =>
             /\ CachedKeys(pending.cache) = CachedKeys(returned.before)
             /\ \A k \in CachedKeys(returned.before) \ {_get_key(returned.text)} :
                  DictGet(pending.cache.cache, k) = DictGet(returned.before.cache, k)
        /\ DictGet(pending.cache.cache, _get_key(returned.text)).embedding
             = returned.value.embedding

\* what does hold: a put removes at most one entry, only from a full cache,
\* and the text it stores is cached afterwards with the embedding put
C39_PutEvictsOnlyWhenFull ==
    (pc = "stored" /\ returned.op = "put") =>
        /\ Removed # {} =>
             /\ Cardinality(Removed) = 1
             /\ EmbeddingCache_size(returned.before) >= max_size
        /\ \A k \in CachedKeys(returned.before) \ (Removed \cup {_get_key(returned.text)}) :
             DictGet(pending.cache.cache, k) = DictGet(returned.before.cache, k)
        /\ DictGet(pending.cache.cache, _get_key(returned.text))
             = [key |-> _get_key(returned.text), embedding |-> returned.value.embedding,
                timestamp |-> returned.at]

\* a put for a text already in a full cache has removed another entry
C39_Witness ==
    /\ pc = "stored"
    /\ returned.op = "put"
    /\ _get_key(returned.text) \in CachedKeys(returned.before)
    /\ EmbeddingCache_size(returned.before) = max_size
    /\ Removed # {}
    /\ EmbeddingCache_size(pending.cache) < max_size

----------------------------------------------------------------------------
(* The embedding cache under two callers at once.                          *)

\* no operation of either caller is under way
Quiet == \A th \in Threads : state[th].at \in {"idle", "raised"}

Raised == { th \in Threads : state[th].at = "raised" }

\* C36: when two queries use the shared cache concurrently, their gets and
\* puts interleaved at the level of the single reads and deletes of the two
\* maps, no get or put raises, and after all operations complete the cache
\* map and the access-time map hold exactly the same keys
C36_NoRaceDamage ==
    pc = "racing" =>
        /\ Raised = {}
        /\ Quiet => CachedKeys(pending.cache) = AccessKeys(pending.cache)

\* a caller's operation has raised on a key the other caller removed
C36_Witness ==
    /\ pc = "racing"
    /\ Raised # {}

\* both operations have completed without raising and the two maps hold
\* different keys
C36_KeysDifferWitness ==
    /\ pc = "racing"
    /\ \A th \in Threads : state[th].at = "idle" /\ state[th].left = 0
    /\ CachedKeys(pending.cache) # AccessKeys(pending.cache)

\* both operations have completed without raising and the cache holds more
\* than max_size entries
C36_OverfullWitness ==
    /\ pc = "racing"
    /\ \A th \in Threads : state[th].at = "idle" /\ state[th].left = 0
    /\ Len(pending.cache.cache) > max_size

----------------------------------------------------------------------------
(* The route and the intent type                                           *)

\* the route the claim gives an intent type
RouteOfIntent(intent_type) ==
    CASE intent_type = "profile" -> "search_profiles"
      [] intent_type = "event" -> "search_events"
      [] intent_type = "mixed" -> "search_mixed"

\* C37: the route chosen by the router always agrees with the intent_type
\* of intent classification for the same query: 'profile' goes to
\* search_profiles, 'event' to search_events, 'mixed' to search_mixed, also
\* when nothing was extracted and the type came from the query keywords or
\* from the failure path
C37_RouteAgreesWithIntent ==
    (trace = <<"intent_classification">> /\ pc # "returned") =>
        /\ route_query(state) = RouteOfIntent(state.intent_type)
        /\ pc = RouteTarget(RouteOfIntent(state.intent_type))

\* the part that holds: route and intent type agree whenever something was
\* extracted, on the failure path, and when the keywords give 'profile'
C37_AgreesUnlessKeywordEvent ==
    (trace = <<"intent_classification">> /\ pc # "returned") =>
        \/ /\ route_query(state) = RouteOfIntent(state.intent_type)
           /\ pc = RouteTarget(RouteOfIntent(state.intent_type))
        \/ /\ state.intent_type = "event"
           /\ state.query \in EventKeywords
           /\ state.profile_attributes = <<>>
           /\ state.events = <<>>
           /\ state.error = NoneValue
           /\ pc = "search_profiles"

\* nothing was extracted, the keywords of the query gave intent type 'event'
\* and the router has sent the run to the profile search
C37_Witness ==
    /\ trace = <<"intent_classification">>
    /\ state.intent_type = "event"
    /\ state.profile_attributes = <<>>
    /\ state.events = <<>>
    /\ pc = "search_profiles"

\* the failure path has set intent type 'profile' and the router has sent
\* the run to the profile search
C37_FailureWitness ==
    /\ trace = <<"intent_classification">>
    /\ state.error # NoneValue
    /\ state.intent_type = "profile"
    /\ pc = "search_profiles"

\* events alone were extracted and the router has sent the run to the event
\* search
C37_EventWitness ==
    /\ trace = <<"intent_classification">>
    /\ state.intent_type = "event"
    /\ state.events # <<>>
    /\ pc = "search_events"

----------------------------------------------------------------------------
(* The catalog fields of an ambiguous group                                *)

ResultsOf(category) ==
    IF category = "profile" THEN state.profile_results
    ELSE IF category = "event" THEN state.event_results
    ELSE state.event_attr_results

\* the catalog fields behind the candidates of one reported group: the
\* matches of its category for its query text at or above the ambiguity
\* threshold
FieldsOfGroup(option) ==
    { m.matched_field.id :
        m \in { r \in Range(ResultsOf(option.category)) :
                  /\ r.original_query = option.original_query
                  /\ r.matched_field.score >= ambiguity_threshold } }

\* C38: every ambiguous group reported in the final result contains at least
\* two distinct catalog fields: has_ambiguity is never set merely because
\* the same source query text was extracted twice (or two queries share a
\* text) and resolved to the same catalog field both times
C38_GroupsHoldDistinctFields ==
    (pc = "aggregated") =>
      LET options == state.final_result.ambiguous_options
      IN /\ \A k \in 1..Len(options) : Cardinality(FieldsOfGroup(options[k])) >= 2
         /\ state.final_result.has_ambiguity =>
              \E k \in 1..Len(options) : Cardinality(FieldsOfGroup(options[k])) >= 2

\* what holds: every reported group carries two or more candidates, one for
\* each match of its category and query text at or above the threshold
C38_GroupsHoldSeveralMatches ==
    (pc = "aggregated") =>
      LET options == state.final_result.ambiguous_options
      IN /\ \A k \in 1..Len(options) :
              /\ Len(options[k].candidates) >= 2
              /\ FieldsOfGroup(options[k]) # {}
         /\ state.final_result.has_ambiguity <=> (options # <<>>)

\* the same query text resolved twice to the same profile field, and the
\* result is flagged ambiguous with the field as both candidates
C38_Witness ==
    /\ pc = "aggregated"
    /\ Len(state.profile_results) = 2
    /\ state.profile_results[1] = state.profile_results[2]
    /\ state.event_results = <<>>
    /\ state.final_result.has_ambiguity
    /\ Len(state.final_result.ambiguous_options) = 1
    /\ Len(state.final_result.ambiguous_options[1].candidates) = 2
    /\ state.final_result.ambiguous_options[1].candidates[1]
         = state.final_result.ambiguous_options[1].candidates[2]

\* two different fields for one query text, reported as one group
C38_DistinctWitness ==
    /\ pc = "aggregated"
    /\ Len(state.final_result.ambiguous_options) = 1
    /\ Cardinality(FieldsOfGroup(state.final_result.ambiguous_options[1])) = 2

====
